---- MODULE Spec2Model ----
(***************************************************************************)
(* Chatterbox TTS server (krizic/js-podcast-gen): the text segmentation    *)
(* and parameter resolution pipeline, the audio validation pipeline and    *)
(* the synthesis handlers around them.                                     *)
(*                                                                         *)
(* A text is a sequence of one-character strings.  An Optional[...] value  *)
(* of the Python code is a sequence of length at most one: <<>> is None,   *)
(* <<v>> is the value v.                                                   *)
(***************************************************************************)
EXTENDS Integers, Sequences, FiniteSets, TLC

\* ------------------------------------------------------------------ bounds

\* Longest input text enumerated, in characters.
MaxTextLen == 5

\* Largest explicit chunk_size enumerated.
MaxChunkSize == 4

\* Highest rank and largest dimension size of a model output buffer.
MaxRank == 4
MaxDim == 2

\* Largest dimension size of the buffers the model returns to a handler,
\* longest request text and longest handling time (in hundredths of a second)
\* enumerated for a served request.
MaxServedDim == 2
MaxChars == 2
MaxElapsed == 1

\* model.sr, the sample rate of the loaded model, in samples per second.
ModelSampleRate == 3

\* Most add_synthesis calls since the last reset, and the latest time the
\* clock reaches.
MaxSyntheses == 3
MaxClock == 2

\* Requests handled concurrently.
MaxTasks == 2

\* Most add_synthesis calls begun and most reset_stats calls while a worker
\* thread reads the tracker.
MaxAdds == 2
MaxResets == 1

\* ------------------------------------------------------------------- state

VARIABLES
  \* a call of utilities/text_processing.py: its arguments, the settings it
  \* resolved (None before it does) and the chunks it returned
  call_text, call_chunk_size, call_strategy, call_quality, settings, result_chunks, seg_pc

segVars ==
  <<call_text, call_chunk_size, call_strategy, call_quality, settings, result_chunks, seg_pc>>

VARIABLES
  \* a call of TTSSynthesisService.prepare_synthesis_parameters: the TTSRequest
  \* and what the call returned or raised
  request, resolved, res_pc

resVars == <<request, resolved, res_pc>>

VARIABLES
  \* a call of AudioProcessor._process_audio_tensor: the model's output and
  \* what the call returned or raised
  wav_tensor, processed, val_pc

valVars == <<wav_tensor, processed, val_pc>>

VARIABLES
  \* TTSModelManager.model is not None; the model global of the standalone
  \* server (src/chatterbox_server.py) is not None
  model_loaded, standalone_loaded,
  \* performance_tracker.metrics
  metrics,
  \* the HTTP request being served, with what the model and the encoder will
  \* answer for it, and the response its handler gave (None before it does)
  http_request, http_response, srv_pc

srvVars ==
  <<model_loaded, standalone_loaded, metrics, http_request, http_response, srv_pc>>

VARIABLES
  \* A call of tensor_to_mp3_bytes: the statement it is at, its argument, its
  \* locals temp_wav_path and temp_mp3_path, the temporary files that exist, the
  \* exception or value on its way out through the finally block, and what the
  \* call returned or raised
  mp3_pc, mp3_tensor, temp_wav_path, temp_mp3_path, temp_files, mp3_leaving,
  mp3_result,
  \* What the call has done so far: the temporary files it created, whether it
  \* ran the conversion subprocess, the files whose os.unlink raised
  mp3_created, mp3_converted, mp3_unlink_failed

mp3Vars ==
  <<mp3_pc, mp3_tensor, temp_wav_path, temp_mp3_path, temp_files, mp3_leaving,
    mp3_result, mp3_created, mp3_converted, mp3_unlink_failed>>

VARIABLES
  \* performance_tracker.metrics.start_time and the clock time.time() reads
  metrics_start_time, trk_clock,
  \* The last call made on performance_tracker, with its arguments, and the
  \* dictionary the last get_stats returned
  trk_call, trk_stats

trkVars == <<metrics_start_time, trk_clock, trk_call, trk_stats>>

VARIABLES
  \* Requests being handled on the server's event loop: for each request the
  \* statement its handler is at, the arguments of its add_synthesis and the
  \* value it has loaded for the "+=" it is in; the request whose handler the
  \* event loop is running (None: the loop is free)
  task_pc, task_args, task_reg, loop_running

loopVars == <<task_pc, task_args, task_reg, loop_running>>

VARIABLES
  \* The tracker shared by the event loop's thread, which records, and a worker
  \* thread of the thread pool, which serves a GET handler: the start_time the
  \* tracker was constructed with; the statement the recording thread is at, the
  \* local start_time of its reset_stats, the arguments of the add_synthesis
  \* calls begun since the last reset and the number of reset_stats calls; the
  \* number of reads the worker's get_stats has made, the values it has read, and
  \* what its get_stats returned or raised (None once the next call has begun)
  constructed_start_time, writer_pc, writer_start_time, adds_begun, resets_begun,
  reader_pc, reader_values, reader_stats

thrVars ==
  <<constructed_start_time, writer_pc, writer_start_time, adds_begun, resets_begun,
    reader_pc, reader_values, reader_stats>>

VARIABLES
  \* The server's startup: the statement TTSModelManager.load_model or its
  \* caller _load_model_async is at, and what load_model returned or raised
  \* (None before it does)
  load_pc, load_outcome

ldVars == <<load_pc, load_outcome>>

VARIABLES
  \* A call of openai_speech_endpoint with its voice_file parameter (None: no
  \* upload): the statement it is at, its local voice_file_path, the temporary
  \* voice files that exist, and the answer on its way out through the finally
  \* block
  voice_file, up_pc, voice_file_path, voice_temp_files, up_leaving

upVars == <<voice_file, up_pc, voice_file_path, voice_temp_files, up_leaving>>

vars == <<segVars, resVars, valVars, srvVars, mp3Vars, trkVars, loopVars, thrVars, ldVars, upVars>>

\* ------------------------------------------------------- Python primitives

None == <<>>
Some(v) == <<v>>

\* Characters the inputs are drawn from: a letter, two kinds of whitespace
\* and a sentence terminator.
Chars == {"a", " ", "\n", "."}

\* str.strip(), str.split() and the regex class \s
IsSpace(c) == c \in {" ", "\n", "\t", "\r"}

\* the regex class [.!?]
IsTerm(c) == c \in {".", "!", "?"}

Texts == UNION {[1..n -> Chars] : n \in 0..MaxTextLen}

MinOf(S) == CHOOSE x \in S : \A y \in S : x <= y
MaxOf(S) == CHOOSE x \in S : \A y \in S : x >= y

\* s[from..] (Python s[from-1:])
Drop(s, n) == SubSeq(s, n + 1, Len(s))

\* str.strip()
Strip(s) ==
  LET keep == {i \in 1..Len(s) : ~IsSpace(s[i])}
  IN IF keep = {} THEN <<>> ELSE SubSeq(s, MinOf(keep), MaxOf(keep))

\* Python truthiness of a string: "not text" is true of the empty string
IsBlank(s) == Strip(s) = <<>>

\* The end of the maximal run of characters of the set stop's complement that
\* starts at position from (from - 1 when s[from] is in stop): stops are the
\* positions from from on that end the run.
RunEnd(s, from, stops) ==
  LET after == {i \in stops : i >= from}
  IN IF after = {} THEN Len(s) ELSE MinOf(after) - 1

\* The positions of s holding whitespace, no whitespace, no terminator
SpacesOf(s) == {i \in 1..Len(s) : IsSpace(s[i])}
NonSpacesOf(s) == {i \in 1..Len(s) : ~IsSpace(s[i])}
NonTermsOf(s) == {i \in 1..Len(s) : ~IsTerm(s[i])}

\* str.split(): the maximal whitespace-free runs, in order
RECURSIVE SplitWhitespace(_)
SplitWhitespace(s) ==
  LET starts == {i \in 1..Len(s) : ~IsSpace(s[i])}
  IN IF starts = {} THEN <<>>
     ELSE LET b == MinOf(starts)
              e == RunEnd(s, b, SpacesOf(s))
          IN <<SubSeq(s, b, e)>> \o SplitWhitespace(Drop(s, e))

\* re.split(r'([.!?]+\s*)', text): text, separator, text, ..., text
RECURSIVE ReSplitSentences(_)
ReSplitSentences(s) ==
  LET starts == {i \in 1..Len(s) : IsTerm(s[i])}
  IN IF starts = {} THEN <<s>>
     ELSE LET b == MinOf(starts)
              t == RunEnd(s, b, NonTermsOf(s))
              e == RunEnd(s, t + 1, NonSpacesOf(s))
          IN <<SubSeq(s, 1, b - 1), SubSeq(s, b, e)>> \o ReSplitSentences(Drop(s, e))

\* The end of the match of \n\s*\n at position b, 0 when there is none: the
\* greedy \s* backs off to the last newline of the whitespace run after b.
ParagraphBreakEnd(s, b) ==
  IF s[b] # "\n" THEN 0
  ELSE LET e == RunEnd(s, b + 1, NonSpacesOf(s))
           nl == {m \in (b + 1)..e : s[m] = "\n"}
       IN IF nl = {} THEN 0 ELSE MaxOf(nl)

\* re.split(r'\n\s*\n', text)
RECURSIVE ReSplitParagraphs(_)
ReSplitParagraphs(s) ==
  LET starts == {i \in 1..Len(s) : ParagraphBreakEnd(s, i) # 0}
  IN IF starts = {} THEN <<s>>
     ELSE LET b == MinOf(starts)
          IN <<SubSeq(s, 1, b - 1)>> \o ReSplitParagraphs(Drop(s, ParagraphBreakEnd(s, b)))

\* ------------------------------------------- utilities/text_processing.py

\* ChunkingStrategy
PARAGRAPH == "paragraph"
SENTENCE == "sentence"
WORD == "word"
FIXED == "fixed"

\* QualityPreset
FAST == "fast"
BALANCED == "balanced"
HIGH == "high"

\* quality_defaults of get_streaming_settings
QualityDefaults ==
  [q \in {FAST, BALANCED, HIGH} |->
     CASE q = FAST -> [chunk_size |-> 100, strategy |-> WORD]
       [] q = BALANCED -> [chunk_size |-> 200, strategy |-> SENTENCE]
       [] q = HIGH -> [chunk_size |-> 300, strategy |-> PARAGRAPH]]

\* Python truthiness of an Optional[int] and of an Optional[str]
TruthyInt(o) == o # None /\ o[1] # 0
TruthyStr(o) == o # None /\ o[1] # ""

\* get_streaming_settings with the strategy override dropped
GetStreamingSettings_NoStrategyOverride(cs, st, q) ==
  LET qual == IF TruthyStr(q) THEN q[1] ELSE BALANCED
      defaults == IF qual \in DOMAIN QualityDefaults
                  THEN QualityDefaults[qual] ELSE QualityDefaults[BALANCED]
  IN [chunk_size |-> IF TruthyInt(cs) THEN cs[1] ELSE defaults.chunk_size,
      strategy |-> defaults.strategy,
      quality |-> qual]

\* get_streaming_settings(chunk_size, strategy, quality)
GetStreamingSettings(cs, st, q) ==
  LET qual == IF TruthyStr(q) THEN q[1] ELSE BALANCED
      defaults == IF qual \in DOMAIN QualityDefaults
                  THEN QualityDefaults[qual] ELSE QualityDefaults[BALANCED]
  IN [chunk_size |-> IF TruthyInt(cs) THEN cs[1] ELSE defaults.chunk_size,
      strategy |-> IF TruthyStr(st) THEN st[1] ELSE defaults.strategy,
      quality |-> qual]

\* Overflows without the joining space counted
Overflows_NoSpace(current, unit, max_length) ==
  current # <<>> /\ Len(current) + Len(unit) > max_length

\* "If adding this word would exceed max_length", the flush test of
\* _split_by_words and, on sentences, of _split_by_sentences
Overflows(current, unit, max_length) ==
  current # <<>> /\ Len(current) + Len(unit) + 1 > max_length

\* The loop of _split_by_words from word i on: <<chunks, current_chunk>>
RECURSIVE WordLoop(_, _, _, _, _)
WordLoop(words, i, chunks, current, max_length) ==
  IF i > Len(words) THEN <<chunks, current>>
  ELSE LET word == words[i]
       IN IF Overflows(current, word, max_length)
          THEN WordLoop(words, i + 1, Append(chunks, Strip(current)), word, max_length)
          ELSE WordLoop(words, i + 1, chunks, Strip(current \o <<" ">> \o word), max_length)

\* _split_by_words(text, max_length)
SplitByWords(text, max_length) ==
  LET r == WordLoop(SplitWhitespace(text), 1, <<>>, <<>>, max_length)
  IN IF Strip(r[2]) # <<>> THEN Append(r[1], Strip(r[2])) ELSE r[1]

\* full_sentences of _split_by_sentences: for i in range(0, len(sentences) - 1, 2),
\* sentences[i] + sentences[i + 1], stripped.  The separator always holds a
\* terminator, so it is never blank; the elif branch of the loop cannot be taken
\* because i + 1 < len(sentences) holds for every i of the range.
FullSentences(sentences) ==
  [k \in 1..(Len(sentences) \div 2) |->
     LET sep == sentences[2 * k]
     IN Strip(sentences[2 * k - 1] \o (IF Strip(sep) # <<>> THEN sep ELSE <<>>))]

\* The packing loop of _split_by_sentences from sentence i on
RECURSIVE SentenceLoop(_, _, _, _, _)
SentenceLoop(full, i, chunks, current, max_length) ==
  IF i > Len(full) THEN <<chunks, current>>
  ELSE LET sentence == full[i]
       IN IF sentence = <<>>
          THEN SentenceLoop(full, i + 1, chunks, current, max_length)
          ELSE IF Overflows(current, sentence, max_length)
          THEN SentenceLoop(full, i + 1, Append(chunks, Strip(current)), sentence, max_length)
          ELSE SentenceLoop(full, i + 1, chunks, Strip(current \o <<" ">> \o sentence), max_length)

\* "Handle overly long sentences": chunks over max_length are split by words
RECURSIVE SplitLongChunks(_, _)
SplitLongChunks(chunks, max_length) ==
  IF chunks = <<>> THEN <<>>
  ELSE (IF Len(Head(chunks)) <= max_length
        THEN <<Head(chunks)>>
        ELSE SplitByWords(Head(chunks), max_length))
       \o SplitLongChunks(Tail(chunks), max_length)

\* _split_by_sentences(text, max_length)
SplitBySentences(text, max_length) ==
  LET r == SentenceLoop(FullSentences(ReSplitSentences(text)), 1, <<>>, <<>>, max_length)
      chunks == IF Strip(r[2]) # <<>> THEN Append(r[1], Strip(r[2])) ELSE r[1]
  IN SplitLongChunks(chunks, max_length)

\* The loop of _split_by_paragraphs
RECURSIVE ParagraphLoop(_, _)
ParagraphLoop(paragraphs, max_length) ==
  IF paragraphs = <<>> THEN <<>>
  ELSE LET paragraph == Strip(Head(paragraphs))
       IN (IF paragraph = <<>> THEN <<>>
           ELSE IF Len(paragraph) <= max_length THEN <<paragraph>>
           ELSE SplitBySentences(paragraph, max_length))
          \o ParagraphLoop(Tail(paragraphs), max_length)

\* The paragraph strategy without its split at blank lines
SplitByParagraphs_AsSentences(text, max_length) == SplitBySentences(text, max_length)

\* _split_by_paragraphs(text, max_length)
SplitByParagraphs(text, max_length) ==
  SelectSeq(ParagraphLoop(ReSplitParagraphs(text), max_length),
            LAMBDA chunk : Strip(chunk) # <<>>)

\* The loop of _split_by_fixed_size that keeps every slice as it was cut
RECURSIVE FixedLoop_NoStrip(_, _, _)
FixedLoop_NoStrip(text, i, max_length) ==
  IF max_length <= 0 \/ i >= Len(text) THEN <<>>
  ELSE <<SubSeq(text, i + 1, IF i + max_length < Len(text)
                             THEN i + max_length ELSE Len(text))>>
       \o FixedLoop_NoStrip(text, i + max_length, max_length)

\* The loop of _split_by_fixed_size from offset i (0-based) on; range(0, len(text),
\* max_length) is empty for a negative step.  A step of 0 makes range raise, and
\* split_text_for_streaming never passes it: get_streaming_settings replaces a
\* chunk_size of 0 by the preset's default.
RECURSIVE FixedLoop(_, _, _)
FixedLoop(text, i, max_length) ==
  IF max_length <= 0 \/ i >= Len(text) THEN <<>>
  ELSE LET chunk == SubSeq(text, i + 1, IF i + max_length < Len(text)
                                        THEN i + max_length ELSE Len(text))
       IN (IF Strip(chunk) # <<>> THEN <<Strip(chunk)>> ELSE <<>>)
          \o FixedLoop(text, i + max_length, max_length)

\* _split_by_fixed_size(text, max_length)
SplitByFixedSize(text, max_length) == FixedLoop(text, 0, max_length)

\* IsEmptyInput without the strip: "if not text"
IsEmptyInput_NoStrip(t) == t = <<>>

\* FitsInOneChunk with a strict comparison
FitsInOneChunk_Strict(stripped, max_length) == Len(stripped) < max_length

\* "if not text or not text.strip()"
IsEmptyInput(t) == t = <<>> \/ Strip(t) = <<>>

\* "If text is shorter than max length, return as single chunk"
FitsInOneChunk(stripped, max_length) == Len(stripped) <= max_length

\* split_text_for_streaming(text, chunk_size, strategy, quality)
SplitTextForStreaming(t, cs, st, q) ==
  IF IsEmptyInput(t) THEN <<>>
  ELSE LET stripped == Strip(t)
           s == GetStreamingSettings(cs, st, q)
           max_length == s.chunk_size
           strategy_name == s.strategy
       IN IF FitsInOneChunk(stripped, max_length) THEN <<stripped>>
          ELSE CASE strategy_name = PARAGRAPH -> SplitByParagraphs(stripped, max_length)
                 [] strategy_name = SENTENCE -> SplitBySentences(stripped, max_length)
                 [] strategy_name = WORD -> SplitByWords(stripped, max_length)
                 [] strategy_name = FIXED -> SplitByFixedSize(stripped, max_length)
                 [] OTHER -> SplitBySentences(stripped, max_length)

\* --------------------------------------------------- the segmenter's calls

Strategies == {PARAGRAPH, SENTENCE, WORD, FIXED}

\* Arguments of a call: an absent, negative, zero or positive chunk size; an
\* absent, empty, known or unknown strategy and quality name.
ChunkSizeInputs == {None} \cup {Some(n) : n \in -1..MaxChunkSize}
StrategyInputs == {None, Some("")} \cup {Some(n) : n \in Strategies \cup {"bogus"}}
QualityInputs == {None} \cup {Some(n) : n \in {FAST, BALANCED, HIGH, "ultra"}}

SegIdle ==
  /\ call_text = <<>> /\ call_chunk_size = None /\ call_strategy = None /\ call_quality = None
  /\ settings = None /\ result_chunks = <<>> /\ seg_pc = "idle"

\* No call of prepare_synthesis_parameters, none of _process_audio_tensor
ResIdle == request = None /\ resolved = None /\ res_pc = "idle"
ValIdle == wav_tensor = None /\ processed = None /\ val_pc = "idle"

\* No call of tensor_to_mp3_bytes
Mp3Idle ==
  /\ mp3_pc = "idle" /\ mp3_tensor = None
  /\ temp_wav_path = None /\ temp_mp3_path = None /\ temp_files = {}
  /\ mp3_leaving = None /\ mp3_result = None
  /\ mp3_created = {} /\ mp3_converted = FALSE /\ mp3_unlink_failed = {}

\* No call on performance_tracker since the process started at time 0
TrkIdle ==
  metrics_start_time = 0 /\ trk_clock = 0 /\ trk_call = None /\ trk_stats = None

\* No request on the event loop
LoopIdle ==
  task_pc = <<>> /\ task_args = <<>> /\ task_reg = <<>> /\ loop_running = None

\* No thread on the tracker
ThrIdle ==
  /\ constructed_start_time = 0 /\ writer_pc = <<>> /\ writer_start_time = 0
  /\ adds_begun = <<>> /\ resets_begun = 0
  /\ reader_pc = 0 /\ reader_values = <<>> /\ reader_stats = None

\* No startup under way
LdIdle == load_pc = "idle" /\ load_outcome = None

\* No call of openai_speech_endpoint with an upload
UpIdle ==
  /\ voice_file = None /\ up_pc = "idle" /\ voice_file_path = None
  /\ voice_temp_files = {} /\ up_leaving = None

\* PerformanceMetrics(): the counters at zero (durations and times are held in
\* hundredths of a second)
ZeroMetrics ==
  [synthesis_count |-> 0, total_characters |-> 0,
   total_audio_duration |-> 0, total_processing_time |-> 0]

\* No request being served
SrvIdle ==
  /\ model_loaded = FALSE /\ standalone_loaded = FALSE /\ metrics = ZeroMetrics
  /\ http_request = None /\ http_response = None /\ srv_pc = "idle"

\* A caller about to call split_text_for_streaming
SegInit ==
  /\ ResIdle /\ ValIdle /\ SrvIdle /\ Mp3Idle /\ TrkIdle /\ LoopIdle /\ ThrIdle /\ LdIdle /\ UpIdle
  /\ call_text \in Texts
  /\ call_chunk_size \in ChunkSizeInputs
  /\ call_strategy \in StrategyInputs
  /\ call_quality \in QualityInputs
  /\ settings = None /\ result_chunks = <<>> /\ seg_pc = "ready"

\* split_text_for_streaming(text, chunk_size, strategy, quality) returns
CallSplitTextForStreaming ==
  /\ seg_pc = "ready"
  /\ result_chunks' = SplitTextForStreaming(call_text, call_chunk_size, call_strategy, call_quality)
  /\ settings' = IF IsEmptyInput(call_text) THEN None
                 ELSE Some(GetStreamingSettings(call_chunk_size, call_strategy, call_quality))
  /\ seg_pc' = "returned"
  /\ UNCHANGED <<call_text, call_chunk_size, call_strategy, call_quality>>
  /\ UNCHANGED <<resVars, valVars, srvVars, mp3Vars, trkVars, loopVars, thrVars, ldVars, upVars>>

SegNext == CallSplitTextForStreaming

SpecSegmenter == SegInit /\ [][SegNext]_vars

\* A caller about to call get_streaming_settings
SettingsInit ==
  /\ ResIdle /\ ValIdle /\ SrvIdle /\ Mp3Idle /\ TrkIdle /\ LoopIdle /\ ThrIdle /\ LdIdle /\ UpIdle
  /\ call_text = <<>>
  /\ call_chunk_size \in ChunkSizeInputs
  /\ call_strategy \in StrategyInputs
  /\ call_quality \in QualityInputs
  /\ settings = None /\ result_chunks = <<>> /\ seg_pc = "ready"

\* get_streaming_settings(chunk_size, strategy, quality) returns
CallGetStreamingSettings ==
  /\ seg_pc = "ready"
  /\ settings' = Some(GetStreamingSettings(call_chunk_size, call_strategy, call_quality))
  /\ seg_pc' = "resolved"
  /\ UNCHANGED <<call_text, call_chunk_size, call_strategy, call_quality, result_chunks>>
  /\ UNCHANGED <<resVars, valVars, srvVars, mp3Vars, trkVars, loopVars, thrVars, ldVars, upVars>>

SettingsNext == CallGetStreamingSettings

SpecSettings == SettingsInit /\ [][SettingsNext]_vars

\* ------------------------------------------------- config/voice_config.py

\* The six numeric parameters of a voice preset, in the order
\* prepare_synthesis_parameters walks them.  Their values are held in
\* hundredths (0.8 is 80, 1.15 is 115).
ParamNames ==
  <<"temperature", "top_p", "min_p", "repetition_penalty", "exaggeration", "cfg_weight">>

ParamSet == {ParamNames[i] : i \in 1..Len(ParamNames)}

Preset(t, p, m, r, e, c, personality) ==
  [temperature |-> t, top_p |-> p, min_p |-> m, repetition_penalty |-> r,
   exaggeration |-> e, cfg_weight |-> c, personality |-> personality]

\* VOICE_PRESETS (description and use_case, texts no code reads back, left out)
VOICE_PRESETS ==
  [n \in {"default", "masculine", "deep_male", "professional", "conversational",
          "energetic", "feminine"} |->
     CASE n = "default" -> Preset(80, 100, 5, 120, 50, 50, "neutral")
       [] n = "masculine" -> Preset(20, 60, 3, 115, 30, 35, "confident")
       [] n = "deep_male" -> Preset(15, 50, 2, 110, 20, 30, "authoritative")
       [] n = "professional" -> Preset(10, 40, 1, 105, 10, 25, "formal")
       [] n = "conversational" -> Preset(60, 90, 8, 130, 70, 60, "friendly")
       [] n = "energetic" -> Preset(90, 100, 10, 140, 80, 70, "enthusiastic")
       [] n = "feminine" -> Preset(40, 80, 6, 125, 40, 45, "expressive")]

\* A call that returned v, a call that raised the exception named e
Returned(v) == [outcome |-> "ok", value |-> v]
Raised(e) == [outcome |-> e]

\* get_voice_preset(preset_name)
GetVoicePreset(preset_name) ==
  IF preset_name \notin DOMAIN VOICE_PRESETS
  THEN Raised("KeyError")
  ELSE Returned(VOICE_PRESETS[preset_name])

\* ---------------------------------- services/tts_service.py: the resolver

\* "request_val if request_val is not None else preset[param]" with the test
\* on the value's truth instead
PickOverride_Truthy(request_val, preset_val) ==
  IF request_val # None /\ request_val[1] # 0 THEN request_val[1] ELSE preset_val

\* "request_val if request_val is not None else preset[param]"
PickOverride(request_val, preset_val) ==
  IF request_val # None THEN request_val[1] ELSE preset_val

\* TTSSynthesisService.prepare_synthesis_parameters(request): final_params.
\* The request_id it returns beside them, a hash of the text and the clock used
\* in log lines only, is left out.
PrepareSynthesisParameters(req) ==
  LET preset == GetVoicePreset(req.voice_preset)
  IN IF preset.outcome # "ok" THEN preset
     ELSE Returned([param \in ParamSet |-> PickOverride(req[param], preset.value[param])])

\* ---------------------------------------------------- the resolver's calls

\* The values TTSRequest admits for an override (models/tts_models.py: the
\* ge/le bounds of each Field): absent, the least and the greatest value.
OverrideInputs(param) ==
  {None} \cup
  CASE param \in {"temperature", "top_p"} -> {Some(10), Some(100)}
    [] param = "min_p" -> {Some(1), Some(20)}
    [] param = "repetition_penalty" -> {Some(100), Some(200)}
    [] param \in {"exaggeration", "cfg_weight"} -> {Some(0), Some(100)}

\* Preset names of requests: the catalog's, one the OpenAI voice mapping
\* produces that the catalog lacks, and another unknown one
PresetNameInputs == DOMAIN VOICE_PRESETS \cup {"warm", "nope"}

TTSRequests ==
  {[voice_preset |-> n, temperature |-> t, top_p |-> p, min_p |-> m,
    repetition_penalty |-> r, exaggeration |-> e, cfg_weight |-> c] :
     n \in PresetNameInputs,
     t \in OverrideInputs("temperature"), p \in OverrideInputs("top_p"),
     m \in OverrideInputs("min_p"), r \in OverrideInputs("repetition_penalty"),
     e \in OverrideInputs("exaggeration"), c \in OverrideInputs("cfg_weight")}

\* A caller about to call prepare_synthesis_parameters
ResInit ==
  /\ SegIdle /\ ValIdle /\ SrvIdle /\ Mp3Idle /\ TrkIdle /\ LoopIdle /\ ThrIdle /\ LdIdle /\ UpIdle
  /\ request \in {Some(r) : r \in TTSRequests}
  /\ resolved = None /\ res_pc = "ready"

\* prepare_synthesis_parameters(request) returns or raises
CallPrepareSynthesisParameters ==
  /\ res_pc = "ready"
  /\ resolved' = Some(PrepareSynthesisParameters(request[1]))
  /\ res_pc' = "returned"
  /\ UNCHANGED <<request, segVars, valVars, srvVars, mp3Vars, trkVars, loopVars, thrVars, ldVars, upVars>>

ResNext == CallPrepareSynthesisParameters

SpecResolver == ResInit /\ [][ResNext]_vars

\* --------------------------------- services/tts_service.py: the validator

\* A buffer is [array_like, shape, peak]: whether it is an array-like that
\* torch.tensor() converts (FALSE: it is a torch.Tensor), its shape, and the
\* greatest absolute value of its samples, torch.max(torch.abs(wav_tensor)), in
\* hundred-thousandths.

\* The product of the dimension sizes: Tensor.numel()
RECURSIVE Numel(_)
Numel(shape) == IF shape = <<>> THEN 1 ELSE Head(shape) * Numel(Tail(shape))

\* Tensor.unsqueeze(0)
Unsqueeze0(shape) == <<1>> \o shape

\* Tensor.squeeze(): every dimension of size 1 removed
Squeeze(shape) == SelectSeq(shape, LAMBDA d : d # 1)

\* "Ensure proper audio format (channels, samples)"
NormalizeChannels(shape) ==
  IF Len(shape) = 1 THEN Unsqueeze0(shape)
  ELSE IF Len(shape) > 2
       THEN (IF Len(Squeeze(shape)) = 1
             THEN Unsqueeze0(Squeeze(shape)) ELSE Squeeze(shape))
       ELSE shape

\* The first test of _process_audio_tensor:
\* wav_tensor is None or (torch.is_tensor(wav_tensor) and wav_tensor.numel() == 0)
IsEmptyOutput(w) == w = None \/ (~w[1].array_like /\ Numel(w[1].shape) = 0)

\* AudioProcessor._process_audio_tensor(wav_tensor).  The three ValueErrors are
\* named by what they report: EmptyAudio ("empty output"), NoContent ("has no
\* content"), SilentAudio ("is silent").  shape[1] of a buffer of rank 0 raises
\* IndexError; torch.max of a buffer without elements raises RuntimeError.
ProcessAudioTensor(w) ==
  IF IsEmptyOutput(w) THEN Raised("EmptyAudio")
  ELSE LET shape == NormalizeChannels(w[1].shape)
       IN IF Len(shape) < 2 THEN Raised("IndexError")
          ELSE IF shape[2] = 0 THEN Raised("NoContent")
          ELSE IF Numel(shape) = 0 THEN Raised("RuntimeError")
          ELSE IF w[1].peak = 0 THEN Raised("SilentAudio")
          ELSE Returned([array_like |-> FALSE, shape |-> shape, peak |-> w[1].peak])

\* --------------------------------------------------- the validator's calls

Shapes == UNION {[1..r -> 0..MaxDim] : r \in 0..MaxRank}

\* Peaks of the model's outputs: silence, 0.00004 and full scale
Peaks == {0, 4, 100000}

\* Outputs of the model: tensors and array-likes of every shape; one without
\* elements has no non-zero sample
Buffers ==
  {[array_like |-> t, shape |-> sh, peak |-> pk] :
     t \in BOOLEAN, sh \in Shapes, pk \in Peaks} \
  {b \in [array_like : BOOLEAN, shape : Shapes, peak : Peaks \ {0}] : Numel(b.shape) = 0}

\* A caller about to call _process_audio_tensor
ValInit ==
  /\ SegIdle /\ ResIdle /\ SrvIdle /\ Mp3Idle /\ TrkIdle /\ LoopIdle /\ ThrIdle /\ LdIdle /\ UpIdle
  /\ wav_tensor \in {None} \cup {Some(b) : b \in Buffers}
  /\ processed = None /\ val_pc = "ready"

\* _process_audio_tensor(wav_tensor) returns or raises
CallProcessAudioTensor ==
  /\ val_pc = "ready"
  /\ processed' = Some(ProcessAudioTensor(wav_tensor))
  /\ val_pc' = "returned"
  /\ UNCHANGED <<wav_tensor, segVars, resVars, srvVars, mp3Vars, trkVars, loopVars, thrVars, ldVars, upVars>>

ValNext == CallProcessAudioTensor

SpecValidator == ValInit /\ [][ValNext]_vars

\* ------------------------------------ services/performance_service.py

\* add_synthesis with "=" in place of "+=" for total_characters
AddSynthesis_OverwriteChars(m, chars, duration, processing_time) ==
  [synthesis_count |-> m.synthesis_count + 1,
   total_characters |-> chars,
   total_audio_duration |-> m.total_audio_duration + duration,
   total_processing_time |-> m.total_processing_time + processing_time]

\* PerformanceTracker.add_synthesis(chars, duration, processing_time)
AddSynthesis(m, chars, duration, processing_time) ==
  [synthesis_count |-> m.synthesis_count + 1,
   total_characters |-> m.total_characters + chars,
   total_audio_duration |-> m.total_audio_duration + duration,
   total_processing_time |-> m.total_processing_time + processing_time]

\* ------------------------- services/tts_service.py: synthesis and encoding

\* round(n / d, 0) as Python rounds: to the nearest integer, a tie to the even
\* one
RoundHalfEven(n, d) ==
  LET q == n \div d
      r == n % d
  IN IF 2 * r < d THEN q
     ELSE IF 2 * r > d THEN q + 1
     ELSE IF q % 2 = 0 THEN q ELSE q + 1

\* AudioProcessor.analyze_audio(wav_tensor): its dictionary, duration_seconds
\* in hundredths, peak_amplitude, round(peak_amplitude, 4), in ten-thousandths,
\* rms_level and dynamic_range_db by whether the level is above zero
AnalyzeAudio(tensor) ==
  [duration_seconds |-> RoundHalfEven(100 * tensor.shape[2], ModelSampleRate),
   sample_rate |-> ModelSampleRate,
   channels |-> tensor.shape[1],
   samples |-> tensor.shape[2],
   peak_amplitude |-> RoundHalfEven(tensor.peak, 10),
   rms_level |-> IF tensor.peak > 0 THEN "positive" ELSE "zero",
   dynamic_range_db |-> IF tensor.peak > 0 THEN "finite" ELSE "nan"]

\* AudioProcessor.generate_audio(text, voice_params, audio_prompt_path), the
\* model answering model_out to generate()
GenerateAudio(loaded, model_out) ==
  IF ~loaded THEN Raised("RuntimeError")
  ELSE IF model_out.outcome # "ok" THEN model_out
  ELSE ProcessAudioTensor(model_out.value)

\* What a synthesis did: how it ended, the parameters generate() was called
\* with (None: it was not called), the validated tensor and its analysis
SynthesisTrace(outcome, generate_params, tensor, analysis) ==
  [outcome |-> outcome, generate_params |-> generate_params,
   tensor |-> tensor, analysis |-> analysis]

\* synthesize_to_tensor calling generate before it has resolved the
\* parameters, with the default preset's
SynthesizeToTensor_GenerateFirst(loaded, req, model_out) ==
  LET wav == GenerateAudio(loaded, model_out)
      called == IF loaded THEN Some(VOICE_PRESETS["default"]) ELSE None
      final_params == PrepareSynthesisParameters(req)
  IN IF wav.outcome # "ok" THEN SynthesisTrace(wav.outcome, called, None, None)
     ELSE IF final_params.outcome # "ok"
          THEN SynthesisTrace(final_params.outcome, called, None, None)
          ELSE SynthesisTrace("ok", called, Some(wav.value), Some(AnalyzeAudio(wav.value)))

\* TTSSynthesisService.synthesize_to_tensor(request)
SynthesizeToTensor(loaded, req, model_out) ==
  LET final_params == PrepareSynthesisParameters(req)
  IN IF final_params.outcome # "ok"
     THEN SynthesisTrace(final_params.outcome, None, None, None)
     ELSE LET wav == GenerateAudio(loaded, model_out)
              called == IF loaded THEN Some(final_params.value) ELSE None
          IN IF wav.outcome # "ok"
             THEN SynthesisTrace(wav.outcome, called, None, None)
             ELSE SynthesisTrace("ok", called, Some(wav.value),
                                 Some(AnalyzeAudio(wav.value)))

\* What torchaudio's save leaves in the buffer: a WAV file, nothing, or it
\* raises
WavOutcomes == {"bytes", "empty", "raise"}

\* AudioProcessor.tensor_to_wav_bytes(wav_tensor), and the same ta.save of the
\* standalone server: ta.save takes a tensor of rank 2 only; the length of the
\* bytes is kept as 1 for a file, 0 for nothing
TensorToWavBytes(tensor, encoder_out) ==
  IF Len(tensor.shape) # 2 THEN Raised("ValueError")
  ELSE IF encoder_out = "raise" THEN Raised("RuntimeError")
  ELSE Returned(IF encoder_out = "bytes" THEN 1 ELSE 0)

\* What FFmpeg does for tensor_to_mp3_bytes: converts, is not installed, exits
\* with an error, or writes an empty file
Mp3Outcomes == {"bytes", "unavailable", "failed", "empty"}

\* AudioProcessor.tensor_to_mp3_bytes(wav_tensor)
TensorToMp3Bytes(tensor, encoder_out) ==
  IF encoder_out = "unavailable" THEN Raised("RuntimeError")
  ELSE IF Len(tensor.shape) # 2 THEN Raised("ValueError")
  ELSE IF encoder_out \in {"failed", "empty"} THEN Raised("RuntimeError")
  ELSE Returned(1)

\* ------------------------------------ controllers/tts_controller.py

\* The answer to a request: the HTTP status, the exception behind an error, the
\* synthesis that ran (None: none was started), the length of the audio in the
\* body (None: no audio), and the counters the handler leaves
Answer(status, error, synthesis, audio_len, m) ==
  [status |-> status, error |-> error, synthesis |-> synthesis,
   audio_len |-> audio_len, metrics |-> m]

\* TTSController.synthesize_json(request)
HandleSynthesizeJson(loaded, m, rq) ==
  IF ~loaded THEN Answer(503, "HTTPException", None, None, m)
  ELSE LET final_params == PrepareSynthesisParameters(rq.body)
       IN IF final_params.outcome # "ok"
          THEN Answer(500, final_params.outcome, None, None, m)
          ELSE LET s == SynthesizeToTensor(loaded, rq.body, rq.model_out)
               IN IF s.outcome # "ok" THEN Answer(500, s.outcome, Some(s), None, m)
                  ELSE LET audio_bytes == TensorToWavBytes(s.tensor[1], rq.encoder_out)
                           counted == AddSynthesis(m, rq.chars,
                                                   s.analysis[1].duration_seconds,
                                                   rq.elapsed)
                       IN IF audio_bytes.outcome # "ok"
                          THEN Answer(500, audio_bytes.outcome, Some(s), None, m)
                          ELSE IF audio_bytes.value = 0
                               THEN Answer(500, "ZeroDivisionError", Some(s), None, counted)
                               ELSE Answer(200, "", Some(s), Some(audio_bytes.value), counted)

\* synthesize_wav without its test of is_loaded()
HandleSynthesizeWav_Unguarded(loaded, m, rq) ==
  LET s == SynthesizeToTensor(loaded, rq.body, rq.model_out)
  IN IF s.outcome # "ok" THEN Answer(500, s.outcome, Some(s), None, m)
     ELSE LET audio_bytes == TensorToWavBytes(s.tensor[1], rq.encoder_out)
          IN IF audio_bytes.outcome # "ok"
             THEN Answer(500, audio_bytes.outcome, Some(s), None, m)
             ELSE IF audio_bytes.value = 0
                  THEN Answer(500, "HTTPException", Some(s), None, m)
                  ELSE Answer(200, "", Some(s), Some(audio_bytes.value),
                              AddSynthesis(m, rq.chars, s.analysis[1].duration_seconds,
                                           rq.elapsed))

\* TTSController.synthesize_wav(request)
HandleSynthesizeWav(loaded, m, rq) ==
  IF ~loaded THEN Answer(503, "HTTPException", None, None, m)
  ELSE LET s == SynthesizeToTensor(loaded, rq.body, rq.model_out)
       IN IF s.outcome # "ok" THEN Answer(500, s.outcome, Some(s), None, m)
          ELSE LET audio_bytes == TensorToWavBytes(s.tensor[1], rq.encoder_out)
               IN IF audio_bytes.outcome # "ok"
                  THEN Answer(500, audio_bytes.outcome, Some(s), None, m)
                  ELSE IF audio_bytes.value = 0
                       THEN Answer(500, "HTTPException", Some(s), None, m)
                       ELSE Answer(200, "", Some(s), Some(audio_bytes.value),
                                   AddSynthesis(m, rq.chars,
                                                s.analysis[1].duration_seconds,
                                                rq.elapsed))

\* TTSController.synthesize_mp3(request)
HandleSynthesizeMp3(loaded, m, rq) ==
  IF ~loaded THEN Answer(503, "HTTPException", None, None, m)
  ELSE LET s == SynthesizeToTensor(loaded, rq.body, rq.model_out)
       IN IF s.outcome # "ok" THEN Answer(500, s.outcome, Some(s), None, m)
          ELSE LET mp3_bytes == TensorToMp3Bytes(s.tensor[1], rq.encoder_out)
               IN IF mp3_bytes.outcome # "ok"
                  THEN Answer(500, mp3_bytes.outcome, Some(s), None, m)
                  ELSE Answer(200, "", Some(s), Some(mp3_bytes.value),
                              AddSynthesis(m, rq.chars,
                                           s.analysis[1].duration_seconds,
                                           rq.elapsed))

\* TTSController._synthesize_internal(request): the answer when it raises, and
\* status 200 with the audio when it returns its result
SynthesizeInternal(loaded, m, req, model_out, encoder_out) ==
  IF ~loaded THEN Answer(503, "HTTPException", None, None, m)
  ELSE LET s == SynthesizeToTensor(loaded, req, model_out)
       IN IF s.outcome # "ok" THEN Answer(500, s.outcome, Some(s), None, m)
          ELSE LET audio_bytes == TensorToWavBytes(s.tensor[1], encoder_out)
               IN IF audio_bytes.outcome # "ok"
                  THEN Answer(500, audio_bytes.outcome, Some(s), None, m)
                  ELSE IF "generation_time" \notin DOMAIN s.analysis[1]
                       THEN Answer(500, "KeyError", Some(s), None, m)
                       ELSE Answer(200, "", Some(s), Some(audio_bytes.value), m)

\* voice_mapping.get(voice, "masculine") of openai_speech_endpoint
VoiceMapping(voice) ==
  CASE voice = "alloy" -> "masculine"
    [] voice = "echo" -> "professional"
    [] voice = "fable" -> "energetic"
    [] voice = "onyx" -> "deep_male"
    [] voice = "nova" -> "feminine"
    [] voice = "shimmer" -> "warm"
    [] OTHER -> "masculine"

\* "Map OpenAI voice names to our presets if no custom preset specified"
MappedVoicePreset(voice, voice_preset) ==
  IF voice_preset = Some("masculine") /\ voice # "alloy"
  THEN Some(VoiceMapping(voice)) ELSE voice_preset

\* The range a Field of TTSRequest admits for an override, in hundredths
FieldRange(param) ==
  CASE param \in {"temperature", "top_p"} -> 10..100
    [] param = "min_p" -> 1..20
    [] param = "repetition_penalty" -> 100..200
    [] param \in {"exaggeration", "cfg_weight"} -> 0..100

\* TTSRequest(text, voice_preset, exaggeration, cfg_weight, temperature, ...)
\* as openai_speech_endpoint builds it: pydantic refuses a voice_preset that
\* is no string and an override outside its Field's range
BuildTTSRequest(voice_preset, exaggeration, cfg_weight, temperature) ==
  IF \/ voice_preset = None
     \/ exaggeration # None /\ exaggeration[1] \notin FieldRange("exaggeration")
     \/ cfg_weight # None /\ cfg_weight[1] \notin FieldRange("cfg_weight")
     \/ temperature # None /\ temperature[1] \notin FieldRange("temperature")
  THEN Raised("ValidationError")
  ELSE Returned([voice_preset |-> voice_preset[1], temperature |-> temperature,
                 top_p |-> None, min_p |-> None, repetition_penalty |-> None,
                 exaggeration |-> exaggeration, cfg_weight |-> cfg_weight])

\* TTSController.openai_speech_endpoint(input, voice, ..., voice_preset,
\* exaggeration, cfg_weight, temperature) of a request without a voice file
HandleOpenaiSpeech(loaded, m, rq) ==
  LET voice_preset == MappedVoicePreset(rq.body.voice, rq.body.voice_preset)
      synthesis_request ==
        BuildTTSRequest(voice_preset, rq.body.exaggeration, rq.body.cfg_weight,
                        rq.body.temperature)
  IN IF synthesis_request.outcome # "ok"
     THEN Answer(500, synthesis_request.outcome, None, None, m)
     ELSE SynthesizeInternal(loaded, m, synthesis_request.value, rq.model_out,
                             rq.encoder_out)

\* ---------------------------------------------- src/chatterbox_server.py

\* VOICE_PRESETS of the standalone server, temperature and top_p in hundredths
STANDALONE_VOICE_PRESETS ==
  [n \in {"default", "masculine", "deep_male", "professional", "feminine"} |->
     CASE n = "default" ->
            [temperature |-> 30, top_p |-> 70, top_k |-> 20,
             prompt |-> "[oral_2][laugh_0][break_6]"]
       [] n = "masculine" ->
            [temperature |-> 20, top_p |-> 60, top_k |-> 15,
             prompt |-> "[oral_1][laugh_0][break_4]"]
       [] n = "deep_male" ->
            [temperature |-> 10, top_p |-> 50, top_k |-> 10,
             prompt |-> "[oral_0][laugh_0][break_8]"]
       [] n = "professional" ->
            [temperature |-> 25, top_p |-> 65, top_k |-> 18,
             prompt |-> "[oral_1][laugh_0][break_5]"]
       [] n = "feminine" ->
            [temperature |-> 40, top_p |-> 80, top_k |-> 25,
             prompt |-> "[oral_3][laugh_1][break_4]"]]

\* VOICE_PRESETS.get(request.voice_preset, VOICE_PRESETS["masculine"])
StandalonePresetFor(voice_preset) ==
  IF voice_preset \in DOMAIN STANDALONE_VOICE_PRESETS
  THEN STANDALONE_VOICE_PRESETS[voice_preset]
  ELSE STANDALONE_VOICE_PRESETS["masculine"]

\* params_infer_code and params_refine_text of synthesize_speech
StandaloneInferParams(req) ==
  LET preset == StandalonePresetFor(req.voice_preset)
  IN [temperature |-> PickOverride(req.temperature, preset.temperature),
      top_P |-> PickOverride(req.top_p, preset.top_p),
      top_K |-> PickOverride(req.top_k, preset.top_k),
      prompt |-> preset.prompt]

\* synthesize_speech(request) of the standalone server; model_out is what
\* model.infer answers (a value of None: no waveform in the list)
HandleStandaloneSynthesize(loaded, m, rq) ==
  IF ~loaded THEN Answer(503, "HTTPException", None, None, m)
  ELSE LET called == Some(StandaloneInferParams(rq.body))
           s(outcome) == SynthesisTrace(outcome, called, None, None)
       IN IF rq.model_out.outcome # "ok"
          THEN Answer(500, rq.model_out.outcome, Some(s(rq.model_out.outcome)), None, m)
          ELSE IF rq.model_out.value = None
               THEN Answer(500, "HTTPException", Some(s("HTTPException")), None, m)
               ELSE LET wav == rq.model_out.value[1]
                        shape == IF Len(wav.shape) = 1
                                 THEN Unsqueeze0(wav.shape) ELSE wav.shape
                        audio == TensorToWavBytes([wav EXCEPT !.shape = shape],
                                                  rq.encoder_out)
                    IN IF audio.outcome # "ok"
                       THEN Answer(500, audio.outcome, Some(s(audio.outcome)), None, m)
                       ELSE Answer(200, "", Some(s("ok")), Some(audio.value), m)

\* ------------------------------------------------------ requests served

\* The tensors the model returns to a handler
ServedShapes == UNION {[1..r -> 0..MaxServedDim] : r \in 0..3}

ServedBuffers == {b \in Buffers : ~b.array_like /\ b.shape \in ServedShapes}

\* What the model does for a request: raises, returns None, returns a tensor
ModelOutcomes ==
  {Raised("RuntimeError"), Returned(None)} \cup {Returned(Some(b)) : b \in ServedBuffers}

\* Preset names of served requests: two the modular catalog holds, the second
\* unknown to the standalone server; one the OpenAI voice mapping produces that
\* no catalog holds; another unknown one
ServedPresetNames == {"masculine", "energetic", "warm", "nope"}

\* Bodies of the requests to the JSON, WAV and MP3 handlers
ServedTTSRequests ==
  {r \in TTSRequests :
     /\ r.voice_preset \in ServedPresetNames
     /\ \A param \in ParamSet \ {"temperature"} : r[param] = None}

\* Forms posted to the OpenAI-compatible handler: the voice, the preset (None:
\* sent as no string) and a temperature (500: outside the Field's range)
OpenaiForms ==
  [voice : {"alloy", "fable", "shimmer", "custom"},
   voice_preset : {None} \cup {Some(n) : n \in {"masculine", "energetic", "nope"}},
   temperature : {None, Some(10), Some(500)},
   exaggeration : {None}, cfg_weight : {None}]

\* Bodies of the requests to the standalone server
StandaloneRequests ==
  [voice_preset : ServedPresetNames,
   temperature : {None, Some(0), Some(50)}, top_p : {None}, top_k : {None}]

\* A request received by a handler, with the length of its text, what the
\* model and the encoder will do for it and the time its handling takes
ServedRequest(handler, bodies, encoder_outs) ==
  [handler : {handler}, body : bodies, chars : 1..MaxChars,
   model_out : ModelOutcomes, encoder_out : encoder_outs, elapsed : 1..MaxElapsed]

ServedRequests ==
  ServedRequest("synthesize_json", ServedTTSRequests, WavOutcomes)
  \cup ServedRequest("synthesize_wav", ServedTTSRequests, WavOutcomes)
  \cup ServedRequest("synthesize_mp3", ServedTTSRequests, Mp3Outcomes)
  \cup ServedRequest("openai_speech_endpoint", OpenaiForms, WavOutcomes)
  \cup ServedRequest("synthesize_speech", StandaloneRequests, WavOutcomes)

\* A server that has received a request, its model loaded or not
SrvInit ==
  /\ SegIdle /\ ResIdle /\ ValIdle /\ Mp3Idle /\ TrkIdle /\ LoopIdle /\ ThrIdle /\ LdIdle /\ UpIdle
  /\ model_loaded \in BOOLEAN /\ standalone_loaded \in BOOLEAN
  /\ metrics = ZeroMetrics
  /\ http_request \in {Some(rq) : rq \in ServedRequests}
  /\ http_response = None /\ srv_pc = "received"

\* The handler named h answers the request with the answer a
Respond(h, a) ==
  /\ srv_pc = "received" /\ http_request[1].handler = h
  /\ http_response' = Some([k \in DOMAIN a \ {"metrics"} |-> a[k]])
  /\ metrics' = a.metrics
  /\ srv_pc' = "answered"
  /\ UNCHANGED <<model_loaded, standalone_loaded, http_request, segVars, resVars, valVars,
               mp3Vars, trkVars, loopVars, thrVars, ldVars, upVars>>

SynthesizeJson ==
  Respond("synthesize_json", HandleSynthesizeJson(model_loaded, metrics, http_request[1]))

SynthesizeWav ==
  Respond("synthesize_wav", HandleSynthesizeWav(model_loaded, metrics, http_request[1]))

SynthesizeMp3 ==
  Respond("synthesize_mp3", HandleSynthesizeMp3(model_loaded, metrics, http_request[1]))

OpenaiSpeechEndpoint ==
  Respond("openai_speech_endpoint",
          HandleOpenaiSpeech(model_loaded, metrics, http_request[1]))

SynthesizeSpeech ==
  Respond("synthesize_speech",
          HandleStandaloneSynthesize(standalone_loaded, metrics, http_request[1]))

SrvNext ==
  \/ SynthesizeJson
  \/ SynthesizeWav
  \/ SynthesizeMp3
  \/ OpenaiSpeechEndpoint
  \/ SynthesizeSpeech

SpecServer == SrvInit /\ [][SrvNext]_vars

\* -------------------- services/tts_service.py: tensor_to_mp3_bytes by steps

\* What subprocess.run(['ffmpeg', '-version'], check=True) does: returns, or
\* raises because FFmpeg exits with an error, is not installed, or may not be
\* executed
ProbeOutcomes == {"ok", "CalledProcessError", "FileNotFoundError", "PermissionError"}

\* The probe with its except clause left out: every exception leaves the call
ProbeResult_Uncaught(out) ==
  IF out = "ok" THEN Returned(TRUE) ELSE Raised(out)

\* What the probe of tensor_to_mp3_bytes makes of it: the two exceptions it
\* catches become the RuntimeError "FFmpeg not available", named
\* EncoderUnavailable; any other exception leaves the call as it is
ProbeResult(out) ==
  IF out = "ok" THEN Returned(TRUE)
  ELSE IF out \in {"CalledProcessError", "FileNotFoundError"}
       THEN Raised("EncoderUnavailable")
       ELSE Raised(out)

\* The temporary files the finally block tries to remove, wrong: the WAV only
PathsToClean_WavOnly(wav_path, mp3_path) ==
  IF wav_path # None THEN {wav_path[1]} ELSE {}

\* The temporary files the finally block tries to remove:
\* "for temp_path in [temp_wav_path, temp_mp3_path]: if temp_path and ..."
PathsToClean(wav_path, mp3_path) ==
  (IF wav_path # None THEN {wav_path[1]} ELSE {})
  \cup (IF mp3_path # None THEN {mp3_path[1]} ELSE {})

\* The tensors a handler passes on: those _process_audio_tensor returned
ValidatedTensors ==
  {ProcessAudioTensor(Some(b)).value :
     b \in {sb \in ServedBuffers : ProcessAudioTensor(Some(sb)).outcome = "ok"}}

\* A caller about to call tensor_to_mp3_bytes, no temporary file of it existing
Mp3Init ==
  /\ SegIdle /\ ResIdle /\ ValIdle /\ SrvIdle /\ TrkIdle /\ LoopIdle /\ ThrIdle /\ LdIdle /\ UpIdle
  /\ mp3_pc = "probe"
  /\ mp3_tensor \in {Some(t) : t \in ValidatedTensors}
  /\ temp_wav_path = None /\ temp_mp3_path = None /\ temp_files = {}
  /\ mp3_leaving = None /\ mp3_result = None
  /\ mp3_created = {} /\ mp3_converted = FALSE /\ mp3_unlink_failed = {}

\* The call leaves the try block with the exception or value r: on to finally
LeaveTry(r) ==
  /\ mp3_leaving' = Some(r)
  /\ mp3_pc' = "cleanup"

\* "Check FFmpeg availability", before the try block
ProbeEncoder ==
  /\ mp3_pc = "probe"
  /\ \E out \in ProbeOutcomes :
       IF ProbeResult(out).outcome = "ok"
       THEN mp3_pc' = "create_wav" /\ mp3_result' = mp3_result
       ELSE mp3_pc' = "done" /\ mp3_result' = Some(ProbeResult(out))
  /\ UNCHANGED <<mp3_tensor, temp_wav_path, temp_mp3_path, temp_files, mp3_leaving,
                 mp3_created, mp3_converted, mp3_unlink_failed>>
  /\ UNCHANGED <<segVars, resVars, valVars, srvVars, trkVars, loopVars, thrVars, ldVars, upVars>>

\* with tempfile.NamedTemporaryFile(delete=False, suffix='.wav') as temp_wav:
\*     temp_wav_path = temp_wav.name
CreateTempWav ==
  /\ mp3_pc = "create_wav"
  /\ \E created \in BOOLEAN :
       IF created
       THEN /\ temp_files' = temp_files \cup {"wav"}
            /\ mp3_created' = mp3_created \cup {"wav"}
            /\ temp_wav_path' = Some("wav")
            /\ mp3_pc' = "save_wav"
            /\ UNCHANGED mp3_leaving
       ELSE /\ LeaveTry(Raised("OSError"))
            /\ UNCHANGED <<temp_files, mp3_created, temp_wav_path>>
  /\ UNCHANGED <<mp3_tensor, temp_mp3_path, mp3_result, mp3_converted, mp3_unlink_failed>>
  /\ UNCHANGED <<segVars, resVars, valVars, srvVars, trkVars, loopVars, thrVars, ldVars, upVars>>

\* ta.save(temp_wav_path, wav_tensor, sample_rate, format='wav')
SaveTempWav ==
  /\ mp3_pc = "save_wav"
  /\ \E out \in WavOutcomes :
       LET saved == TensorToWavBytes(mp3_tensor[1], out)
       IN IF saved.outcome = "ok"
          THEN mp3_pc' = "create_mp3" /\ UNCHANGED mp3_leaving
          ELSE LeaveTry(saved)
  /\ UNCHANGED <<mp3_tensor, temp_wav_path, temp_mp3_path, temp_files, mp3_result,
                 mp3_created, mp3_converted, mp3_unlink_failed>>
  /\ UNCHANGED <<segVars, resVars, valVars, srvVars, trkVars, loopVars, thrVars, ldVars, upVars>>

\* with tempfile.NamedTemporaryFile(delete=False, suffix='.mp3') as temp_mp3:
\*     temp_mp3_path = temp_mp3.name
CreateTempMp3 ==
  /\ mp3_pc = "create_mp3"
  /\ \E created \in BOOLEAN :
       IF created
       THEN /\ temp_files' = temp_files \cup {"mp3"}
            /\ mp3_created' = mp3_created \cup {"mp3"}
            /\ temp_mp3_path' = Some("mp3")
            /\ mp3_pc' = "convert"
            /\ UNCHANGED mp3_leaving
       ELSE /\ LeaveTry(Raised("OSError"))
            /\ UNCHANGED <<temp_files, mp3_created, temp_mp3_path>>
  /\ UNCHANGED <<mp3_tensor, temp_wav_path, mp3_result, mp3_converted, mp3_unlink_failed>>
  /\ UNCHANGED <<segVars, resVars, valVars, srvVars, trkVars, loopVars, thrVars, ldVars, upVars>>

\* result = subprocess.run(ffmpeg_cmd, ...); if result.returncode != 0: raise.
\* FFmpeg cannot be started, exits with an error (its output file left or
\* removed), or exits with 0
RunConversion ==
  /\ mp3_pc = "convert"
  /\ mp3_converted' = TRUE
  /\ \E out \in {"raise", "nonzero", "zero"} :
       CASE out = "raise" -> LeaveTry(Raised("OSError")) /\ UNCHANGED temp_files
         [] out = "nonzero" ->
              /\ LeaveTry(Raised("ConversionFailed"))
              /\ temp_files' \in {temp_files, temp_files \ {"mp3"}}
         [] out = "zero" ->
              mp3_pc' = "read" /\ UNCHANGED <<mp3_leaving, temp_files>>
  /\ UNCHANGED <<mp3_tensor, temp_wav_path, temp_mp3_path, mp3_result, mp3_created,
                 mp3_unlink_failed>>
  /\ UNCHANGED <<segVars, resVars, valVars, srvVars, trkVars, loopVars, thrVars, ldVars, upVars>>

\* with open(temp_mp3_path, 'rb') as mp3_file: mp3_bytes = mp3_file.read();
\* if len(mp3_bytes) == 0: raise; return mp3_bytes
ReadMp3 ==
  /\ mp3_pc = "read"
  /\ \E out \in {"raise", "empty", "bytes"} :
       LeaveTry(CASE out = "raise" -> Raised("OSError")
                  [] out = "empty" -> Raised("EmptyOutput")
                  [] out = "bytes" -> Returned(1))
  /\ UNCHANGED <<mp3_tensor, temp_wav_path, temp_mp3_path, temp_files, mp3_result,
                 mp3_created, mp3_converted, mp3_unlink_failed>>
  /\ UNCHANGED <<segVars, resVars, valVars, srvVars, trkVars, loopVars, thrVars, ldVars, upVars>>

\* finally: each recorded path that exists is unlinked; an os.unlink that
\* raises is logged and leaves its file.  Then the call returns or raises.
CleanUpTempFiles ==
  /\ mp3_pc = "cleanup"
  /\ LET existing == PathsToClean(temp_wav_path, temp_mp3_path) \cap temp_files
     IN \E failed \in SUBSET existing :
          /\ temp_files' = (temp_files \ existing) \cup failed
          /\ mp3_unlink_failed' = failed
  /\ mp3_result' = mp3_leaving
  /\ mp3_pc' = "done"
  /\ UNCHANGED <<mp3_tensor, temp_wav_path, temp_mp3_path, mp3_leaving, mp3_created,
                 mp3_converted>>
  /\ UNCHANGED <<segVars, resVars, valVars, srvVars, trkVars, loopVars, thrVars, ldVars, upVars>>

Mp3Next ==
  \/ ProbeEncoder
  \/ CreateTempWav
  \/ SaveTempWav
  \/ CreateTempMp3
  \/ RunConversion
  \/ ReadMp3
  \/ CleanUpTempFiles

SpecMp3 == Mp3Init /\ [][Mp3Next]_vars

\* ------------------- services/performance_service.py: the tracker's calls

\* PerformanceMetrics() created at the time now, as a pair of the counters and
\* start_time (its default_factory is time.time)
PerformanceMetrics(now) == [counters |-> ZeroMetrics, start_time |-> now]

\* reset_stats that leaves the new object's start_time in place
ResetStats_NewStart(m, start, now) == PerformanceMetrics(now)

\* PerformanceTracker.reset_stats(): start_time = self.metrics.start_time;
\* self.metrics = PerformanceMetrics(); self.metrics.start_time = start_time
ResetStats(m, start, now) ==
  LET start_time == start
      fresh == PerformanceMetrics(now)
  IN [fresh EXCEPT !.start_time = start_time]

\* The ratio of get_stats without its division
GetStatsRatio_Unscaled(total, total_processing_time, scale) ==
  IF total_processing_time > 0 THEN total * scale ELSE 0

\* round(total / total_processing_time if total_processing_time > 0 else 0, 2)
\* in hundredths; scale is the number of hundredths in one unit of the quotient
\* of the two stored numbers
GetStatsRatio(total, total_processing_time, scale) ==
  IF total_processing_time > 0
  THEN RoundHalfEven(total * scale, total_processing_time)
  ELSE 0

\* PerformanceTracker.get_stats() at the time now: characters per second and
\* the efficiency ratio in hundredths, uptime in ticks of the clock
GetStats(m, start, now) ==
  [total_requests |-> m.synthesis_count,
   total_characters |-> m.total_characters,
   total_audio_duration |-> m.total_audio_duration,
   total_processing_time |-> m.total_processing_time,
   uptime_seconds |-> now - start,
   avg_chars_per_second |->
     GetStatsRatio(m.total_characters, m.total_processing_time, 10000),
   efficiency_ratio |->
     GetStatsRatio(m.total_audio_duration, m.total_processing_time, 100)]

\* Arguments of add_synthesis (chars, duration and processing_time, the last
\* two in hundredths of a second): (100, 5.0, 2.0), (50, 1.0, 1.0),
\* (100, 1.0, 3.0) and (1, 0.0, 0.0)
SynthesisRecords ==
  {[chars |-> 100, duration |-> 500, processing_time |-> 200],
   [chars |-> 50, duration |-> 100, processing_time |-> 100],
   [chars |-> 100, duration |-> 100, processing_time |-> 300],
   [chars |-> 1, duration |-> 0, processing_time |-> 0]}

\* A call on the tracker and its arguments (none for get_stats and reset_stats)
TrackerCall(op, args) == [op |-> op, args |-> args]

\* The process has created performance_tracker at the time the clock shows
TrkInit ==
  /\ SegIdle /\ ResIdle /\ ValIdle /\ SrvIdle /\ Mp3Idle /\ LoopIdle /\ ThrIdle /\ LdIdle /\ UpIdle
  /\ trk_clock \in 0..1
  /\ metrics_start_time = trk_clock
  /\ trk_call = None /\ trk_stats = None

\* Time passes
Tick ==
  /\ trk_clock < MaxClock
  /\ trk_clock' = trk_clock + 1
  /\ UNCHANGED <<metrics, metrics_start_time, trk_call, trk_stats>>
  /\ UNCHANGED <<model_loaded, standalone_loaded, http_request, http_response, srv_pc>>
  /\ UNCHANGED <<segVars, resVars, valVars, mp3Vars, loopVars, thrVars, ldVars, upVars>>

\* performance_tracker.add_synthesis(chars, duration, processing_time)
CallAddSynthesis ==
  /\ metrics.synthesis_count < MaxSyntheses
  /\ \E a \in SynthesisRecords :
       /\ metrics' = AddSynthesis(metrics, a.chars, a.duration, a.processing_time)
       /\ trk_call' = Some(TrackerCall("add_synthesis", Some(a)))
  /\ UNCHANGED <<metrics_start_time, trk_clock, trk_stats>>
  /\ UNCHANGED <<model_loaded, standalone_loaded, http_request, http_response, srv_pc>>
  /\ UNCHANGED <<segVars, resVars, valVars, mp3Vars, loopVars, thrVars, ldVars, upVars>>

\* performance_tracker.get_stats()
CallGetStats ==
  /\ trk_stats' = Some(GetStats(metrics, metrics_start_time, trk_clock))
  /\ trk_call' = Some(TrackerCall("get_stats", None))
  /\ UNCHANGED <<metrics, metrics_start_time, trk_clock>>
  /\ UNCHANGED <<model_loaded, standalone_loaded, http_request, http_response, srv_pc>>
  /\ UNCHANGED <<segVars, resVars, valVars, mp3Vars, loopVars, thrVars, ldVars, upVars>>

\* performance_tracker.reset_stats()
CallResetStats ==
  /\ LET fresh == ResetStats(metrics, metrics_start_time, trk_clock)
     IN /\ metrics' = fresh.counters
        /\ metrics_start_time' = fresh.start_time
  /\ trk_call' = Some(TrackerCall("reset_stats", None))
  /\ UNCHANGED <<trk_clock, trk_stats>>
  /\ UNCHANGED <<model_loaded, standalone_loaded, http_request, http_response, srv_pc>>
  /\ UNCHANGED <<segVars, resVars, valVars, mp3Vars, loopVars, thrVars, ldVars, upVars>>

TrkNext ==
  \/ Tick
  \/ CallAddSynthesis
  \/ CallGetStats
  \/ CallResetStats

SpecTracker == TrkInit /\ [][TrkNext]_vars

\* --------- controllers/tts_controller.py: concurrent requests on the loop

\* The requests in flight
Tasks == 1..MaxTasks

\* The counters in the order add_synthesis updates them, each with the
\* argument it adds
CounterFields ==
  <<"synthesis_count", "total_characters", "total_audio_duration",
    "total_processing_time">>

\* What add_synthesis adds to the i-th counter
Increment(i, a) ==
  CASE i = 1 -> 1
    [] i = 2 -> a.chars
    [] i = 3 -> a.duration
    [] i = 4 -> a.processing_time

\* The statement a handler is at: a name and, inside add_synthesis, the counter
\* being updated (0 outside it)
Received == <<"received", 0>>
Responding == <<"respond", 0>>
Done == <<"done", 0>>

\* A handler on a thread of its own: it may run whatever the others are at
MayRun_Threads(running, t) == TRUE

\* The handlers are coroutines (async def) called by the one event loop of the
\* uvicorn server: a handler runs when the loop is free or already running it
MayRun(running, t) == running = None \/ running = Some(t)

\* Whether a handler at the statement pc gives the loop back after it: the only
\* await of a handler, on synthesize_to_tensor, awaits a coroutine that never
\* suspends, so a handler keeps the loop until it returns
GivesLoopBack(pc) == pc = Responding

\* The requests have been received, each with the arguments its add_synthesis
\* will record; no handler has started
LoopInit ==
  /\ SegIdle /\ ResIdle /\ ValIdle /\ SrvIdle /\ Mp3Idle /\ TrkIdle /\ ThrIdle /\ LdIdle /\ UpIdle
  /\ task_pc = [t \in Tasks |-> Received]
  /\ task_args \in [Tasks -> SynthesisRecords]
  /\ task_reg = [t \in Tasks |-> 0]
  /\ loop_running = None

\* The handler of request t takes the step from the statement from to the
\* statement to
HandlerStep(t, from, to) ==
  /\ task_pc[t] = from
  /\ MayRun(loop_running, t)
  /\ task_pc' = [task_pc EXCEPT ![t] = to]
  /\ loop_running' = IF GivesLoopBack(from) THEN None ELSE Some(t)
  /\ UNCHANGED task_args
  /\ UNCHANGED <<model_loaded, standalone_loaded, http_request, http_response, srv_pc>>
  /\ UNCHANGED <<segVars, resVars, valVars, mp3Vars, trkVars, thrVars, ldVars, upVars>>

\* synthesize_json, synthesize_wav or synthesize_mp3 up to its call of
\* performance_tracker.add_synthesis: the synthesis and the encoding succeed
BeginHandler(t) ==
  /\ HandlerStep(t, Received, <<"load", 1>>)
  /\ UNCHANGED <<metrics, task_reg>>

\* The read of "self.metrics.<counter> += ..."
LoadCounter(t) ==
  \E i \in 1..Len(CounterFields) :
    /\ HandlerStep(t, <<"load", i>>, <<"store", i>>)
    /\ task_reg' = [task_reg EXCEPT ![t] = metrics[CounterFields[i]]]
    /\ UNCHANGED metrics

\* The write of "self.metrics.<counter> += ..."
StoreCounter(t) ==
  \E i \in 1..Len(CounterFields) :
    /\ HandlerStep(t, <<"store", i>>,
                   IF i < Len(CounterFields) THEN <<"load", i + 1>> ELSE Responding)
    /\ metrics' = [metrics EXCEPT
                     ![CounterFields[i]] = task_reg[t] + Increment(i, task_args[t])]
    /\ UNCHANGED task_reg

\* The handler returns its response
ReturnResponse(t) ==
  /\ HandlerStep(t, Responding, Done)
  /\ UNCHANGED <<metrics, task_reg>>

LoopNext ==
  \E t \in Tasks :
    \/ BeginHandler(t)
    \/ LoadCounter(t)
    \/ StoreCounter(t)
    \/ ReturnResponse(t)

SpecEventLoop == LoopInit /\ [][LoopNext]_vars

\* ------ services/performance_service.py: the tracker between two threads

\* The attribute reads of get_stats in the order it makes them: time.time()
\* and start_time for uptime; total_processing_time for the test and then
\* total_characters and total_processing_time for the quotient of
\* avg_chars_per_sec; the same with total_audio_duration for efficiency_ratio;
\* the four counters of the returned dictionary.  The reads a false test skips
\* are made here too: a read changes nothing, and its value is then not used.
GetStatsReads ==
  <<"time", "start_time",
    "total_processing_time", "total_characters", "total_processing_time",
    "total_processing_time", "total_audio_duration", "total_processing_time",
    "synthesis_count", "total_characters", "total_audio_duration",
    "total_processing_time">>

\* What the read of GetStatsReads names gives: the clock, or the attribute of
\* the object self.metrics refers to at that moment
ReadAttribute(name, m, start, now) ==
  CASE name = "time" -> now
    [] name = "start_time" -> start
    [] OTHER -> m[name]

\* "x / total_processing_time if total_processing_time > 0 else 0", rounded to
\* hundredths, from the values of the test's read and of the quotient's two
QuotientRead(test, total, total_processing_time, scale) ==
  IF test > 0
  THEN IF total_processing_time = 0 THEN Raised("ZeroDivisionError")
       ELSE Returned(RoundHalfEven(total * scale, total_processing_time))
  ELSE Returned(0)

\* What get_stats returns from the values v of its reads, or raises
StatsFromReads(v) ==
  LET avg_chars_per_sec == QuotientRead(v[3], v[4], v[5], 10000)
      efficiency_ratio == QuotientRead(v[6], v[7], v[8], 100)
  IN IF avg_chars_per_sec.outcome # "ok" THEN avg_chars_per_sec
     ELSE IF efficiency_ratio.outcome # "ok" THEN efficiency_ratio
     ELSE Returned([total_requests |-> v[9],
                    total_characters |-> v[10],
                    total_audio_duration |-> v[11],
                    total_processing_time |-> v[12],
                    uptime_seconds |-> v[1] - v[2],
                    avg_chars_per_second |-> avg_chars_per_sec.value,
                    efficiency_ratio |-> efficiency_ratio.value])

\* The statement the recording thread is at: outside a call, at the i-th "+="
\* of add_synthesis, at the i-th statement of reset_stats
WriterIdle == <<"idle", 0>>
InAddSynthesis(i) == <<"add_synthesis", i>>
InResetStats(i) == <<"reset_stats", i>>

\* Arguments of the add_synthesis calls of the recording thread
RecordedSyntheses ==
  {[chars |-> 100, duration |-> 500, processing_time |-> 200]}

\* The module has created performance_tracker; the synthesis handlers call
\* add_synthesis on the event loop's thread, the GET handlers of
\* SystemController, plain functions that the server runs on worker threads,
\* call get_stats
ThrInit ==
  /\ SegIdle /\ ResIdle /\ ValIdle /\ SrvIdle /\ Mp3Idle /\ TrkIdle /\ LoopIdle /\ LdIdle /\ UpIdle
  /\ constructed_start_time = metrics_start_time
  /\ writer_pc = WriterIdle /\ writer_start_time = 0
  /\ adds_begun = <<>> /\ resets_begun = 0
  /\ reader_pc = 0 /\ reader_values = <<>> /\ reader_stats = None

\* A step of one thread: it leaves the requests and the last-call records alone
ThreadFrame ==
  /\ UNCHANGED <<model_loaded, standalone_loaded, http_request, http_response, srv_pc>>
  /\ UNCHANGED <<trk_call, trk_stats, constructed_start_time>>
  /\ UNCHANGED <<segVars, resVars, valVars, mp3Vars, loopVars, ldVars, upVars>>

\* Time passes
ClockTick ==
  /\ trk_clock < MaxClock
  /\ trk_clock' = trk_clock + 1
  /\ UNCHANGED <<metrics, metrics_start_time, writer_pc, writer_start_time, adds_begun,
                 resets_begun, reader_pc, reader_values, reader_stats>>
  /\ ThreadFrame

\* A handler calls performance_tracker.add_synthesis(chars, duration,
\* processing_time)
BeginAddSynthesis ==
  /\ writer_pc = WriterIdle
  /\ Len(adds_begun) < MaxAdds
  /\ \E a \in RecordedSyntheses : adds_begun' = Append(adds_begun, a)
  /\ writer_pc' = InAddSynthesis(1)
  /\ UNCHANGED <<metrics, metrics_start_time, trk_clock, writer_start_time, resets_begun,
                 reader_pc, reader_values, reader_stats>>
  /\ ThreadFrame

\* One "self.metrics.<counter> += ..." of add_synthesis
AddToCounter ==
  /\ \E i \in 1..Len(CounterFields) :
       /\ writer_pc = InAddSynthesis(i)
       /\ metrics' = [metrics EXCEPT ![CounterFields[i]] =
                        @ + Increment(i, adds_begun[Len(adds_begun)])]
       /\ writer_pc' = IF i < Len(CounterFields) THEN InAddSynthesis(i + 1)
                       ELSE WriterIdle
  /\ UNCHANGED <<metrics_start_time, trk_clock, writer_start_time, adds_begun,
                 resets_begun, reader_pc, reader_values, reader_stats>>
  /\ ThreadFrame

\* reset_stats: "start_time = self.metrics.start_time"
ResetReadStartTime ==
  /\ writer_pc = WriterIdle
  /\ resets_begun < MaxResets
  /\ resets_begun' = resets_begun + 1
  /\ writer_start_time' = metrics_start_time
  /\ writer_pc' = InResetStats(2)
  /\ UNCHANGED <<metrics, metrics_start_time, trk_clock, adds_begun, reader_pc,
                 reader_values, reader_stats>>
  /\ ThreadFrame

\* reset_stats: "self.metrics = PerformanceMetrics()"
ResetReplaceMetrics ==
  /\ writer_pc = InResetStats(2)
  /\ metrics' = PerformanceMetrics(trk_clock).counters
  /\ metrics_start_time' = PerformanceMetrics(trk_clock).start_time
  /\ adds_begun' = <<>>
  /\ writer_pc' = InResetStats(3)
  /\ UNCHANGED <<trk_clock, writer_start_time, resets_begun, reader_pc, reader_values,
                 reader_stats>>
  /\ ThreadFrame

\* reset_stats: "self.metrics.start_time = start_time"
ResetRestoreStartTime ==
  /\ writer_pc = InResetStats(3)
  /\ metrics_start_time' = writer_start_time
  /\ writer_pc' = WriterIdle
  /\ UNCHANGED <<metrics, trk_clock, writer_start_time, adds_begun, resets_begun,
                 reader_pc, reader_values, reader_stats>>
  /\ ThreadFrame

\* The next read of the worker's get_stats
GetStatsRead ==
  /\ reader_pc < Len(GetStatsReads)
  /\ reader_values' =
       Append(reader_values,
              ReadAttribute(GetStatsReads[reader_pc + 1], metrics, metrics_start_time,
                            trk_clock))
  /\ reader_pc' = reader_pc + 1
  /\ reader_stats' = IF reader_pc = 0 THEN None ELSE reader_stats
  /\ UNCHANGED <<metrics, metrics_start_time, trk_clock, writer_pc, writer_start_time,
                 adds_begun, resets_begun>>
  /\ ThreadFrame

\* The worker's get_stats returns its dictionary, or raises
GetStatsReturn ==
  /\ reader_pc = Len(GetStatsReads)
  /\ reader_stats' = Some(StatsFromReads(reader_values))
  /\ reader_pc' = 0 /\ reader_values' = <<>>
  /\ UNCHANGED <<metrics, metrics_start_time, trk_clock, writer_pc, writer_start_time,
                 adds_begun, resets_begun>>
  /\ ThreadFrame

ThrNext ==
  \/ ClockTick
  \/ BeginAddSynthesis
  \/ AddToCounter
  \/ ResetReadStartTime
  \/ ResetReplaceMetrics
  \/ ResetRestoreStartTime
  \/ GetStatsRead
  \/ GetStatsReturn

SpecThreads == ThrInit /\ [][ThrNext]_vars

\* --------------------- services/tts_service.py and main.py: loading the model

\* What a call made by load_model does: returns or raises
CallOutcomes == {"ok", "raise"}

\* The requests served after the startup: one body for each synthesis route
\* _register_routes registers, the model answering in every way
StartupRequests ==
  {rq \in ServedRequests :
     /\ rq.handler \in {"synthesize_json", "synthesize_wav", "synthesize_mp3"}
     /\ rq.body.voice_preset = "masculine"
     /\ rq.body.temperature = None
     /\ rq.chars = 1 /\ rq.elapsed = 1 /\ rq.encoder_out = "bytes"}

\* ChatterboxServer's startup event calls _load_model_async, which calls
\* load_model on a manager whose model is None
LdInit ==
  /\ SegIdle /\ ResIdle /\ ValIdle /\ SrvIdle /\ Mp3Idle /\ TrkIdle /\ LoopIdle /\ ThrIdle /\ UpIdle
  /\ load_pc = "from_pretrained" /\ load_outcome = None

\* A step of the startup: no request is being served
StartupFrame ==
  /\ UNCHANGED <<standalone_loaded, metrics, http_request, http_response, srv_pc>>
  /\ UNCHANGED <<segVars, resVars, valVars, mp3Vars, trkVars, loopVars, thrVars, upVars>>

\* load_model: "self.model = ChatterboxTTS.from_pretrained(device=self.device)";
\* when the call raises nothing is assigned and the except clause re-raises
LoadFromPretrained ==
  /\ load_pc = "from_pretrained"
  /\ \E out \in CallOutcomes :
       IF out = "ok"
       THEN /\ model_loaded' = TRUE
            /\ load_pc' = "optimize_memory"
            /\ UNCHANGED load_outcome
       ELSE /\ load_outcome' = Some(Raised("Exception"))
            /\ load_pc' = "load_model_left"
            /\ UNCHANGED model_loaded
  /\ StartupFrame

\* load_model: the log lines that read self.model.sr and self.model.device and
\* "self._optimize_memory()", which empties the device's cache; when one of
\* them raises the except clause logs and re-raises, and no statement of it
\* touches self.model
LoadOptimizeMemory ==
  /\ load_pc = "optimize_memory"
  /\ \E out \in CallOutcomes :
       load_outcome' = Some(IF out = "ok" THEN Returned(None) ELSE Raised("RuntimeError"))
  /\ load_pc' = "load_model_left"
  /\ UNCHANGED model_loaded
  /\ StartupFrame

\* _load_model_async: load_model has returned or raised; the except clause
\* logs the exception, and the startup event completes either way
LoadModelAsyncReturns ==
  /\ load_pc = "load_model_left"
  /\ load_pc' = "serving"
  /\ UNCHANGED <<model_loaded, load_outcome>>
  /\ StartupFrame

\* The started server receives a synthesis request
ReceiveRequest ==
  /\ load_pc = "serving" /\ srv_pc = "idle"
  /\ http_request' \in {Some(rq) : rq \in StartupRequests}
  /\ srv_pc' = "received"
  /\ UNCHANGED <<model_loaded, standalone_loaded, metrics, http_response, load_pc,
                 load_outcome>>
  /\ UNCHANGED <<segVars, resVars, valVars, mp3Vars, trkVars, loopVars, thrVars, upVars>>

LdNext ==
  \/ LoadFromPretrained
  \/ LoadOptimizeMemory
  \/ LoadModelAsyncReturns
  \/ ReceiveRequest
  \/ SynthesizeJson
  \/ SynthesizeWav
  \/ SynthesizeMp3

SpecStartup == LdInit /\ [][LdNext]_vars

\* ------------- controllers/tts_controller.py: the uploaded voice sample

\* allowed_extensions of openai_speech_endpoint
AllowedExtensions == {".wav", ".mp3", ".flac", ".m4a", ".ogg"}

\* The voice_file of a request: none, or an upload with the suffix of its
\* filename ("": no filename) and what shutil.copyfileobj will do with it
VoiceFiles ==
  {None} \cup {Some([extension |-> e, copy |-> c]) :
                 e \in {"", ".wav", ".exe"}, c \in CallOutcomes}

\* The forms of the requests with an upload: a preset of the catalog or an
\* unknown one, a temperature inside or outside the Field's range
UploadRequests ==
  {rq \in ServedRequests :
     /\ rq.handler = "openai_speech_endpoint"
     /\ rq.body.voice = "alloy"
     /\ rq.body.voice_preset \in {Some("masculine"), Some("nope")}
     /\ rq.body.temperature \in {None, Some(500)}
     /\ rq.chars = 1 /\ rq.elapsed = 1 /\ rq.encoder_out = "bytes"}

\* The name NamedTemporaryFile gives the file it creates
TempVoicePath == "tmp_voice"

\* openai_speech_endpoint has been called: "voice_file_path = None"
UpInit ==
  /\ SegIdle /\ ResIdle /\ ValIdle /\ Mp3Idle /\ TrkIdle /\ LoopIdle /\ ThrIdle /\ LdIdle
  /\ model_loaded \in BOOLEAN /\ standalone_loaded = FALSE
  /\ metrics = ZeroMetrics
  /\ http_request \in {Some(rq) : rq \in UploadRequests}
  /\ http_response = None /\ srv_pc = "received"
  /\ voice_file \in VoiceFiles
  /\ up_pc = "check_voice_file" /\ voice_file_path = None
  /\ voice_temp_files = {} /\ up_leaving = None

\* A statement of the try block: the request is not answered yet
UploadFrame ==
  /\ UNCHANGED <<model_loaded, standalone_loaded, metrics, http_request, http_response,
                 srv_pc, voice_file>>
  /\ UNCHANGED <<segVars, resVars, valVars, mp3Vars, trkVars, loopVars, thrVars, ldVars>>

\* The try block is left for the finally block with the answer a: an
\* HTTPException is re-raised, any other exception becomes status 500
LeaveForFinally(a) ==
  /\ up_leaving' = Some([k \in DOMAIN a \ {"metrics"} |-> a[k]])
  /\ up_pc' = "finally"

\* "if voice_file and voice_file.filename": the test of the file type, which
\* raises HTTPException(400) for a suffix that is not allowed
CheckVoiceFile ==
  /\ up_pc = "check_voice_file"
  /\ IF voice_file = None \/ voice_file[1].extension = ""
     THEN up_pc' = "synthesize" /\ UNCHANGED up_leaving
     ELSE IF voice_file[1].extension \notin AllowedExtensions
          THEN LeaveForFinally(Answer(400, "HTTPException", None, None, metrics))
          ELSE up_pc' = "create_temp_file" /\ UNCHANGED up_leaving
  /\ UNCHANGED <<voice_file_path, voice_temp_files>>
  /\ UploadFrame

\* "with tempfile.NamedTemporaryFile(delete=False, suffix=file_extension) as
\* temp_file": the file exists from here on, or the call raises OSError
CreateTempVoiceFile ==
  /\ up_pc = "create_temp_file"
  /\ \E out \in CallOutcomes :
       IF out = "ok"
       THEN /\ voice_temp_files' = voice_temp_files \cup {TempVoicePath}
            /\ up_pc' = "copy_upload"
            /\ UNCHANGED up_leaving
       ELSE /\ LeaveForFinally(Answer(500, "OSError", None, None, metrics))
            /\ UNCHANGED voice_temp_files
  /\ UNCHANGED voice_file_path
  /\ UploadFrame

\* "shutil.copyfileobj(voice_file.file, temp_file)" and, when it returned,
\* "voice_file_path = temp_file.name"; leaving the with block closes the file
\* and, for delete=False, keeps it
CopyUpload ==
  /\ up_pc = "copy_upload"
  /\ IF voice_file[1].copy = "ok"
     THEN /\ voice_file_path' = Some(TempVoicePath)
          /\ up_pc' = "synthesize"
          /\ UNCHANGED up_leaving
     ELSE /\ LeaveForFinally(Answer(500, "OSError", None, None, metrics))
          /\ UNCHANGED voice_file_path
  /\ UNCHANGED voice_temp_files
  /\ UploadFrame

\* The voice mapping, the TTSRequest, _synthesize_internal and the Response
SynthesizeWithVoice ==
  /\ up_pc = "synthesize"
  /\ LeaveForFinally(HandleOpenaiSpeech(model_loaded, metrics, http_request[1]))
  /\ UNCHANGED <<voice_file_path, voice_temp_files>>
  /\ UploadFrame

\* The paths the finally block unlinks: "if voice_file_path and
\* os.path.exists(voice_file_path)"
VoicePathsToClean(path, existing) ==
  IF path # None /\ path[1] \in existing THEN {path[1]} ELSE {}

\* The finally block: os.unlink(voice_file_path), whose exception is logged as
\* a warning and dropped; then the answer leaves the function
CleanUpVoiceFile ==
  /\ up_pc = "finally"
  /\ \E failed \in SUBSET VoicePathsToClean(voice_file_path, voice_temp_files) :
       voice_temp_files' =
         (voice_temp_files \ VoicePathsToClean(voice_file_path, voice_temp_files))
         \cup failed
  /\ http_response' = up_leaving
  /\ srv_pc' = "answered"
  /\ up_pc' = "done"
  /\ UNCHANGED <<model_loaded, standalone_loaded, metrics, http_request, voice_file,
                 voice_file_path, up_leaving>>
  /\ UNCHANGED <<segVars, resVars, valVars, mp3Vars, trkVars, loopVars, thrVars, ldVars>>

UpNext ==
  \/ CheckVoiceFile
  \/ CreateTempVoiceFile
  \/ CopyUpload
  \/ SynthesizeWithVoice
  \/ CleanUpVoiceFile

SpecUpload == UpInit /\ [][UpNext]_vars

\* ------------------------------------------------- claims on the segmenter

\* The chunks joined by single spaces
RECURSIVE JoinWithSpaces(_)
JoinWithSpaces(cs) ==
  IF cs = <<>> THEN <<>>
  ELSE IF Len(cs) = 1 THEN cs[1]
  ELSE cs[1] \o <<" ">> \o JoinWithSpaces(Tail(cs))

\* A text with its whitespace runs collapsed to single spaces and trimmed
NormalizeWhitespace(s) == JoinWithSpaces(SplitWhitespace(s))

\* A text with its whitespace removed
NonWhitespace(s) == SelectSeq(s, LAMBDA c : ~IsSpace(c))

HasNoWhitespace(s) == \A i \in 1..Len(s) : ~IsSpace(s[i])

\* The call has returned after resolving a positive max_length and one of
\* the four strategies
SplitWithKnownStrategy ==
  /\ seg_pc = "returned" /\ settings # None
  /\ settings[1].chunk_size > 0 /\ settings[1].strategy \in Strategies

\* C1: for every text, each of the four strategies and every max_length
\* L > 0, every returned chunk is non-empty after trimming and has length
\* <= L, except a chunk that is one whitespace-free word longer than L.
C1_ChunksWithinLimit ==
  SplitWithKnownStrategy =>
    \A i \in 1..Len(result_chunks) :
      /\ Strip(result_chunks[i]) # <<>>
      /\ \/ Len(result_chunks[i]) <= settings[1].chunk_size
         \/ HasNoWhitespace(result_chunks[i])

\* C1's case: a split that returned an oversized single word next to a chunk
\* within the limit
C1_Witness ==
  /\ SplitWithKnownStrategy
  /\ \E i, j \in 1..Len(result_chunks) :
       /\ Len(result_chunks[i]) > settings[1].chunk_size
       /\ Len(result_chunks[j]) <= settings[1].chunk_size
       /\ Len(result_chunks[j]) > 1

\* C2: for each of the four strategies, joining the chunks with single spaces
\* and collapsing whitespace reproduces the whitespace-normalized text.  Stated
\* here by what the claim spells out: no character of the text other than
\* whitespace is lost, added or reordered (the exact equality of the normalized
\* forms implies it).
C2_RoundTrip ==
  SplitWithKnownStrategy =>
    NonWhitespace(NormalizeWhitespace(JoinWithSpaces(result_chunks)))
      = NonWhitespace(NormalizeWhitespace(call_text))

\* The max_length the arguments of the call resolve to
ResolvedMaxLength ==
  GetStreamingSettings(call_chunk_size, call_strategy, call_quality).chunk_size

\* C3 as claimed: every text no longer than max_length, under any strategy name,
\* comes back as the one chunk <<trim(T)>>.
C3_ShortTextSingleChunk_Original ==
  (seg_pc = "returned" /\ Len(call_text) <= ResolvedMaxLength) =>
    result_chunks = <<Strip(call_text)>>

\* C3 amended: every text no longer than max_length that holds a character other
\* than whitespace comes back, under any strategy name, as the one chunk
\* <<trim(T)>>.
C3_ShortTextSingleChunk ==
  (seg_pc = "returned" /\ ~IsBlank(call_text) /\ Len(call_text) <= ResolvedMaxLength) =>
    result_chunks = <<Strip(call_text)>>

\* C3's case: a text of exactly max_length characters that trimming shortens,
\* split under an unknown strategy name
C3_Witness ==
  /\ seg_pc = "returned" /\ ~IsBlank(call_text)
  /\ call_chunk_size # None /\ Len(call_text) = ResolvedMaxLength
  /\ Strip(call_text) # call_text
  /\ call_strategy = Some("bogus")
  /\ result_chunks = <<Strip(call_text)>>

\* C4: for every chunk size, strategy and quality, the empty text and a text
\* of whitespace only come back as the empty sequence.
C4_BlankTextNoChunks ==
  (seg_pc = "returned" /\ IsBlank(call_text)) => result_chunks = <<>>

\* C4's case: a whitespace-only text of several characters has been split
C4_Witness ==
  /\ seg_pc = "returned" /\ IsBlank(call_text) /\ Len(call_text) >= 2
  /\ call_chunk_size = Some(1) /\ call_strategy = Some(FIXED)
  /\ result_chunks = <<>>

\* The preset's defaults the quality argument selects
PresetDefaults ==
  IF call_quality # None /\ call_quality[1] \in DOMAIN QualityDefaults
  THEN QualityDefaults[call_quality[1]] ELSE QualityDefaults[BALANCED]

\* fast is (100, word), balanced (200, sentence), high (300, paragraph), and the
\* settings resolved without overrides are the preset's
PresetsAsDocumented ==
  /\ QualityDefaults[FAST] = [chunk_size |-> 100, strategy |-> WORD]
  /\ QualityDefaults[BALANCED] = [chunk_size |-> 200, strategy |-> SENTENCE]
  /\ QualityDefaults[HIGH] = [chunk_size |-> 300, strategy |-> PARAGRAPH]
  /\ (call_chunk_size = None /\ call_strategy = None) =>
       /\ settings[1].chunk_size = PresetDefaults.chunk_size
       /\ settings[1].strategy = PresetDefaults.strategy

\* C5 as claimed: the presets are as documented, and every supplied chunk_size
\* and every supplied strategy replaces the preset's default.
C5_OverridesAlwaysWin_Original ==
  seg_pc = "resolved" =>
    /\ PresetsAsDocumented
    /\ call_chunk_size # None => settings[1].chunk_size = call_chunk_size[1]
    /\ call_strategy # None => settings[1].strategy = call_strategy[1]

\* C5 amended: the presets are as documented; every supplied chunk_size other
\* than 0 and every supplied strategy other than the empty string replaces the
\* preset's default; a chunk_size of 0 and an empty strategy are treated as not
\* supplied, and the preset's default stands.
C5_OverridesWin ==
  seg_pc = "resolved" =>
    /\ PresetsAsDocumented
    /\ (call_chunk_size # None /\ call_chunk_size[1] # 0) =>
         settings[1].chunk_size = call_chunk_size[1]
    /\ (call_strategy # None /\ call_strategy[1] # "") =>
         settings[1].strategy = call_strategy[1]
    /\ call_chunk_size = Some(0) => settings[1].chunk_size = PresetDefaults.chunk_size
    /\ call_strategy = Some("") => settings[1].strategy = PresetDefaults.strategy

\* C5's case: the high preset resolved with both overrides supplied
C5_Witness ==
  /\ seg_pc = "resolved" /\ call_quality = Some(HIGH)
  /\ call_chunk_size = Some(MaxChunkSize) /\ call_strategy = Some(FIXED)
  /\ settings = Some([chunk_size |-> MaxChunkSize, strategy |-> FIXED, quality |-> HIGH])

\* C6: the chunk_size the segmenter resolves and splits by is a positive
\* integer, whatever chunk_size, strategy and quality it is called with.
C6_MaxLengthPositive ==
  (seg_pc = "returned" /\ settings # None) => settings[1].chunk_size > 0

\* -------------------------------------------------- claims on the resolver

\* C7: for a preset name of the catalog, prepare_synthesis_parameters returns
\* for each of the six fields the override when one is set (an override of 0
\* included) and the preset's value otherwise; for any other name it fails
\* with the unknown-preset error.
C7_OverrideOrPreset ==
  res_pc = "returned" =>
    LET req == request[1]
        res == resolved[1]
    IN IF req.voice_preset \in DOMAIN VOICE_PRESETS
       THEN /\ res.outcome = "ok"
            /\ DOMAIN res.value = ParamSet
            /\ \A param \in ParamSet :
                 res.value[param] = IF req[param] # None THEN req[param][1]
                                    ELSE VOICE_PRESETS[req.voice_preset][param]
       ELSE res.outcome = "KeyError"

\* C7's case: a known preset resolved with an override of 0 on one field and
\* none on another
C7_Witness ==
  /\ res_pc = "returned"
  /\ request[1].voice_preset = "energetic"
  /\ request[1].exaggeration = Some(0) /\ request[1].temperature = None
  /\ resolved[1].outcome = "ok"
  /\ resolved[1].value.exaggeration = 0 /\ resolved[1].value.temperature = 90

\* ------------------------------------------------- claims on the validator

\* The typed validation failures
ValidationErrors == {"EmptyAudio", "NoContent", "SilentAudio"}

\* The conditions of the three failures, on the buffer handed in
HasZeroElements == wav_tensor = None \/ Numel(wav_tensor[1].shape) = 0
HasEmptySampleAxis ==
  /\ wav_tensor # None
  /\ Len(NormalizeChannels(wav_tensor[1].shape)) >= 2
  /\ NormalizeChannels(wav_tensor[1].shape)[2] = 0
HasZeroPeak == wav_tensor # None /\ wav_tensor[1].peak = 0

\* C9: _process_audio_tensor fails with EmptyAudio when the buffer has zero
\* elements, with NoContent when the sample axis of the normalized buffer has
\* length 0, with SilentAudio when the peak amplitude is zero, and a buffer that
\* triggers none of the three conditions is returned without error.
C9_ThreeFailureKinds ==
  val_pc = "returned" =>
    LET res == processed[1]
    IN /\ HasZeroElements => res.outcome = "EmptyAudio"
       /\ res.outcome = "EmptyAudio" => HasZeroElements
       /\ res.outcome = "NoContent" => HasEmptySampleAxis
       /\ res.outcome = "SilentAudio" => HasZeroPeak
       /\ (~HasZeroElements /\ ~HasEmptySampleAxis /\ ~HasZeroPeak) => res.outcome = "ok"

\* C10: for a buffer of any rank and any dimension sizes, _process_audio_tensor
\* either fails with a typed validation error or returns a buffer of rank 2,
\* [channels, samples], with channels >= 1, samples >= 1 and a non-zero peak.
C10_RankTwoOrTypedError ==
  val_pc = "returned" =>
    LET res == processed[1]
    IN \/ res.outcome \in ValidationErrors
       \/ /\ res.outcome = "ok"
          /\ Len(res.value.shape) = 2
          /\ res.value.shape[1] >= 1 /\ res.value.shape[2] >= 1
          /\ res.value.peak > 0

\* --------------------------------------------------- claims on the handlers

\* The preset catalog of the server the request was sent to
CatalogOf(handler) ==
  IF handler = "synthesize_speech"
  THEN DOMAIN STANDALONE_VOICE_PRESETS ELSE DOMAIN VOICE_PRESETS

\* The answered request named a preset its server's catalog does not hold
UnknownPresetRequested ==
  /\ srv_pc = "answered"
  /\ LET rq == http_request[1]
         name == IF rq.handler = "openai_speech_endpoint"
                 THEN rq.body.voice_preset ELSE Some(rq.body.voice_preset)
     IN name # None /\ name[1] \notin CatalogOf(rq.handler)

\* C8: on every synthesis entry point, the modular JSON, WAV, MP3 and
\* OpenAI-compatible handlers and the standalone server's /synthesize, a request
\* whose preset name is not in the catalog ends in an error, and the model is
\* never called for it with parameters taken from another preset.
C8_UnknownPresetIsError ==
  UnknownPresetRequested =>
    /\ http_response[1].status >= 400
    /\ \/ http_response[1].synthesis = None
       \/ http_response[1].synthesis[1].generate_params = None

\* The handlers that synthesize through synthesize_to_tensor
ModularHandlers ==
  {"synthesize_json", "synthesize_wav", "synthesize_mp3", "openai_speech_endpoint"}

\* The answered request reached the model, which returned a buffer with at
\* least one sample
ModelReturnedSamples ==
  /\ srv_pc = "answered"
  /\ http_request[1].handler \in ModularHandlers
  /\ http_response[1].synthesis # None
  /\ http_response[1].synthesis[1].generate_params # None
  /\ http_request[1].model_out.outcome = "ok"
  /\ http_request[1].model_out.value # None
  /\ Numel(http_request[1].model_out.value[1].shape) > 0

\* C11: in every synthesis request analyze_audio runs only on a buffer that
\* _process_audio_tensor accepted; an all-zero buffer from the model fails the
\* request with SilentAudio without an analysis, and a buffer with a non-zero
\* sample passes validation and is analyzed with a reported peak_amplitude
\* above zero.
C11_AnalyzeOnlyAccepted ==
  ModelReturnedSamples =>
    LET buffer == http_request[1].model_out.value[1]
        ran == http_response[1].synthesis[1]
    IN /\ ran.analysis # None => ProcessAudioTensor(Some(buffer)).outcome = "ok"
       /\ buffer.peak = 0 => ran.outcome = "SilentAudio" /\ ran.analysis = None
       /\ buffer.peak > 0 =>
            /\ ran.outcome = "ok"
            /\ ran.analysis # None
            /\ ran.analysis[1].peak_amplitude > 0

\* The answered request had its validated buffer encoded as WAV, and the
\* encoder left zero bytes
WavEncodedToNothing ==
  /\ srv_pc = "answered"
  /\ http_request[1].handler \in
       {"synthesize_json", "synthesize_wav", "openai_speech_endpoint"}
  /\ http_response[1].synthesis # None
  /\ http_response[1].synthesis[1].outcome = "ok"
  /\ Len(http_response[1].synthesis[1].tensor[1].shape) = 2
  /\ http_request[1].encoder_out = "empty"

\* C12: whenever WAV encoding of a validated buffer yields zero bytes,
\* tensor_to_wav_bytes itself fails, the JSON, WAV-download and OpenAI handlers
\* end the request in an error, and no zero-length audio is returned as a
\* success.
C12_ZeroBytesIsEncodingFailure ==
  WavEncodedToNothing =>
    /\ TensorToWavBytes(http_response[1].synthesis[1].tensor[1],
                        http_request[1].encoder_out).outcome # "ok"
    /\ http_response[1].status >= 400
    /\ http_response[1].audio_len = None

\* ------------------------------------------ claims on tensor_to_mp3_bytes

\* C13: the encoder probe is the first step of tensor_to_mp3_bytes; when it
\* finds FFmpeg unavailable (not installed, or failing its version call) the
\* call fails with EncoderUnavailable, and a call whose probe failed has
\* created no temporary file and has not run the conversion subprocess.
C13_ProbeFirst ==
  /\ \A out \in {"CalledProcessError", "FileNotFoundError"} :
       ProbeResult(out) = Raised("EncoderUnavailable")
  /\ mp3_pc = "probe" => mp3_created = {} /\ temp_files = {} /\ ~mp3_converted
  /\ (mp3_result # None /\ mp3_result[1].outcome = "EncoderUnavailable") =>
       mp3_created = {} /\ temp_files = {} /\ ~mp3_converted

C13_Witness ==
  /\ mp3_pc = "done"
  /\ mp3_result = Some(Raised("EncoderUnavailable"))
  /\ mp3_created = {}

NoCounterLower(before, after) ==
  /\ after.synthesis_count >= before.synthesis_count
  /\ after.total_characters >= before.total_characters
  /\ after.total_audio_duration >= before.total_audio_duration
  /\ after.total_processing_time >= before.total_processing_time

\* C15: every add_synthesis call raises synthesis_count by exactly 1 and adds
\* its three arguments to total_characters, total_audio_duration and
\* total_processing_time; no call lowers any of the four values, and no
\* operation other than reset_stats lowers them.
C15_AppendOnly ==
  [][/\ CallAddSynthesis =>
          LET a == trk_call'[1].args[1]
          IN /\ metrics'.synthesis_count = metrics.synthesis_count + 1
             /\ metrics'.total_characters = metrics.total_characters + a.chars
             /\ metrics'.total_audio_duration = metrics.total_audio_duration + a.duration
             /\ metrics'.total_processing_time =
                  metrics.total_processing_time + a.processing_time
     /\ ~CallResetStats => NoCounterLower(metrics, metrics')]_vars

C15_Witness ==
  /\ trk_call # None /\ trk_call[1].op = "add_synthesis"
  /\ metrics.synthesis_count = 2
  /\ metrics.total_characters = 150

\* get_stats has just returned its dictionary for the present counters
StatsReported == trk_call # None /\ trk_call[1].op = "get_stats"

\* C16 as stated: get_stats reports avg_chars_per_second = total_characters /
\* total_processing_time and efficiency_ratio = total_audio_duration /
\* total_processing_time, each 0 when total_processing_time is 0.
C16_DerivedRatios_Original ==
  StatsReported =>
    LET stats == trk_stats[1]
    IN IF metrics.total_processing_time = 0
       THEN stats.avg_chars_per_second = 0 /\ stats.efficiency_ratio = 0
       ELSE /\ stats.avg_chars_per_second * metrics.total_processing_time =
                 metrics.total_characters * 10000
            /\ stats.efficiency_ratio * metrics.total_processing_time =
                 metrics.total_audio_duration * 100

\* The distance between a and b
AbsDiff(a, b) == IF a >= b THEN a - b ELSE b - a

\* C16: get_stats reports avg_chars_per_second and efficiency_ratio as the
\* quotients total_characters / total_processing_time and total_audio_duration
\* / total_processing_time rounded to two decimals, each 0 when
\* total_processing_time is 0; after add_synthesis(100, 5.0, 2.0) and
\* add_synthesis(50, 1.0, 1.0) they are 50.0 and 2.0.
C16_DerivedRatios ==
  StatsReported =>
    LET stats == trk_stats[1]
        T == metrics.total_processing_time
    IN /\ IF T = 0
          THEN stats.avg_chars_per_second = 0 /\ stats.efficiency_ratio = 0
          ELSE /\ 2 * AbsDiff(stats.avg_chars_per_second * T,
                              metrics.total_characters * 10000) <= T
               /\ 2 * AbsDiff(stats.efficiency_ratio * T,
                              metrics.total_audio_duration * 100) <= T
       /\ (/\ metrics.synthesis_count = 2 /\ metrics.total_characters = 150
           /\ metrics.total_audio_duration = 600 /\ T = 300) =>
            stats.avg_chars_per_second = 5000 /\ stats.efficiency_ratio = 200

C16_Witness ==
  /\ StatsReported
  /\ metrics = [synthesis_count |-> 2, total_characters |-> 150,
                total_audio_duration |-> 600, total_processing_time |-> 300]
  /\ trk_stats[1].efficiency_ratio = 200
  /\ trk_stats[1].avg_chars_per_second = 5000

\* C17: reset_stats, after any sequence of add_synthesis calls, leaves the four
\* counters at zero and start_time as it was, so the uptime get_stats reports
\* keeps counting from the start of the process.
C17_ResetKeepsStart ==
  [][/\ CallResetStats =>
          /\ metrics' = ZeroMetrics
          /\ metrics_start_time' = metrics_start_time
          /\ GetStats(metrics', metrics_start_time', trk_clock').uptime_seconds =
               GetStats(metrics, metrics_start_time, trk_clock).uptime_seconds
     /\ metrics_start_time' = metrics_start_time]_vars

C17_Witness ==
  /\ trk_call # None /\ trk_call[1].op = "reset_stats"
  /\ trk_stats # None /\ trk_stats[1].total_requests = 2
  /\ metrics = ZeroMetrics
  /\ trk_clock > metrics_start_time

\* What the requests 1..n add to the i-th counter, together
RECURSIVE SumOfIncrements(_, _)
SumOfIncrements(i, n) ==
  IF n = 0 THEN 0 ELSE SumOfIncrements(i, n - 1) + Increment(i, task_args[n])

\* The handlers that have read a counter they have not yet written back, or
\* are between two of the four updates
MidUpdate ==
  {t \in DOMAIN task_pc :
     task_pc[t] \in ({<<"store", i>> : i \in 1..4} \cup {<<"load", i>> : i \in 2..4})}

\* C18: the shared counters are updated under mutual exclusion: at most one
\* request is inside add_synthesis at a time, and when k concurrent requests
\* have all completed successfully, in any interleaving, synthesis_count is k
\* and each total is the sum of the k contributions.
C18_NoLostUpdate ==
  /\ Cardinality(MidUpdate) <= 1
  /\ (task_pc # <<>> /\ \A t \in Tasks : task_pc[t] = Done) =>
       /\ metrics.synthesis_count = MaxTasks
       /\ \A i \in 1..Len(CounterFields) :
            metrics[CounterFields[i]] = SumOfIncrements(i, MaxTasks)

C18_Witness ==
  /\ task_pc # <<>> /\ \A t \in Tasks : task_pc[t] = Done
  /\ task_args[1] # task_args[2]
  /\ metrics.synthesis_count = MaxTasks
  /\ metrics.total_characters = task_args[1].chars + task_args[2].chars

\* ---------------------------------------- claims on the packing strategies

\* The call split a text longer than the positive max_length by strategy
LongTextSplitBy(strategy) ==
  /\ seg_pc = "returned" /\ settings # None
  /\ settings[1].chunk_size > 0 /\ settings[1].strategy = strategy
  /\ Len(Strip(call_text)) > settings[1].chunk_size

\* The whitespace-separated words of the chunks, in order
RECURSIVE WordsOfChunks(_)
WordsOfChunks(cs) ==
  IF cs = <<>> THEN <<>> ELSE SplitWhitespace(Head(cs)) \o WordsOfChunks(Tail(cs))

\* The chunks one after another
RECURSIVE ConcatChunks(_)
ConcatChunks(cs) == IF cs = <<>> THEN <<>> ELSE Head(cs) \o ConcatChunks(Tail(cs))

\* C19: for a text longer than max_length, the word strategy returns every
\* whitespace-separated word exactly once, whole and in order, joined by single
\* spaces, with a chunk boundary before a word exactly when len(pending) + 1 +
\* len(word) > max_length; the sentence strategy loses no text either, the text
\* after the last terminator included.
C19_GreedyLossless ==
  /\ LongTextSplitBy(WORD) =>
       LET L == settings[1].chunk_size
           n == Len(result_chunks)
       IN /\ WordsOfChunks(result_chunks) = SplitWhitespace(call_text)
          /\ \A i \in 1..n :
               /\ result_chunks[i] = JoinWithSpaces(SplitWhitespace(result_chunks[i]))
               /\ Len(SplitWhitespace(result_chunks[i])) > 1 => Len(result_chunks[i]) <= L
          /\ \A i \in 1..(n - 1) :
               Len(result_chunks[i]) + 1 + Len(SplitWhitespace(result_chunks[i + 1])[1]) > L
  /\ LongTextSplitBy(SENTENCE) =>
       NonWhitespace(ConcatChunks(result_chunks)) = NonWhitespace(call_text)

\* The lines of a text
RECURSIVE SplitLines(_)
SplitLines(s) ==
  LET breaks == {i \in 1..Len(s) : s[i] = "\n"}
  IN IF breaks = {} THEN <<s>>
     ELSE <<SubSeq(s, 1, MinOf(breaks) - 1)>> \o SplitLines(Drop(s, MinOf(breaks)))

\* The paragraphs of a sequence of lines: the maximal runs of lines that are
\* not blank, each run joined by newlines; open is the run being read
RECURSIVE ParagraphsOfLines(_, _)
ParagraphsOfLines(lines, open) ==
  IF lines = <<>> THEN open
  ELSE IF IsBlank(Head(lines))
       THEN open \o ParagraphsOfLines(Tail(lines), <<>>)
       ELSE ParagraphsOfLines(Tail(lines),
                              IF open = <<>> THEN <<Head(lines)>>
                              ELSE <<open[1] \o <<"\n">> \o Head(lines)>>)

\* The non-empty trimmed paragraphs of a text, separated by blank lines
BlankLineParagraphs(s) ==
  LET ps == ParagraphsOfLines(SplitLines(s), <<>>)
  IN [i \in 1..Len(ps) |-> Strip(ps[i])]

\* For each paragraph in order: the paragraph itself when it fits max_length,
\* the sentence strategy's chunks for it otherwise
RECURSIVE ChunksOfParagraphs(_, _)
ChunksOfParagraphs(ps, max_length) ==
  IF ps = <<>> THEN <<>>
  ELSE (IF Len(Head(ps)) <= max_length
        THEN <<Head(ps)>>
        ELSE SplitTextForStreaming(Head(ps), Some(max_length), Some(SENTENCE), None))
       \o ChunksOfParagraphs(Tail(ps), max_length)

\* C20: under the paragraph strategy, for a text longer than max_length, the
\* chunks are, paragraph by paragraph in order over the non-empty trimmed
\* paragraphs that blank lines separate, the paragraph itself when it fits
\* max_length and the sentence strategy's chunks for it otherwise; so no chunk
\* holds text of two paragraphs.
C20_ParagraphsThenSentences ==
  LongTextSplitBy(PARAGRAPH) =>
    result_chunks =
      ChunksOfParagraphs(BlankLineParagraphs(call_text), settings[1].chunk_size)

C20_Witness ==
  /\ LongTextSplitBy(PARAGRAPH)
  /\ Len(BlankLineParagraphs(call_text)) = 2
  /\ Len(BlankLineParagraphs(call_text)[1]) <= settings[1].chunk_size
  /\ Len(BlankLineParagraphs(call_text)[2]) > settings[1].chunk_size
  /\ Len(result_chunks) = 2

\* ------------------------------------------------ claims on the fixed strategy

\* The consecutive slices text[0:L], text[L:2L], ... of a text, L > 0
SlicesOf(text, L) ==
  LET n == Len(text)
      count == (n + L - 1) \div L
  IN [k \in 1..count |->
        SubSeq(text, (k - 1) * L + 1, IF k * L < n THEN k * L ELSE n)]

\* Each slice trimmed, the slices that are empty after trimming removed
TrimmedNonEmpty(slices) ==
  SelectSeq([k \in 1..Len(slices) |-> Strip(slices[k])], LAMBDA c : c # <<>>)

\* C21: under the fixed strategy, for a (trimmed) text longer than max_length L,
\* the chunks are the consecutive slices text[0:L], text[L:2L], ..., each
\* trimmed, the slices empty after trimming removed, in order; every chunk has
\* at most L characters.
C21_FixedSlices ==
  LongTextSplitBy(FIXED) =>
    LET L == settings[1].chunk_size
    IN /\ result_chunks = TrimmedNonEmpty(SlicesOf(Strip(call_text), L))
       /\ \A i \in 1..Len(result_chunks) : Len(result_chunks[i]) <= L

\* A slice of blanks is dropped, one slice is trimmed, the last one is shorter
C21_Witness ==
  /\ LongTextSplitBy(FIXED)
  /\ LET L == settings[1].chunk_size
         slices == SlicesOf(Strip(call_text), L)
     IN /\ Len(result_chunks) < Len(slices)
        /\ Len(slices[Len(slices)]) < L
        /\ \E k \in 1..Len(slices) : Strip(slices[k]) \notin {<<>>, slices[k]}

\* ----------------------------------- claims on the order of a synthesis

\* The preset name of the TTSRequest the answered request was served with
\* (None: no TTSRequest was built)
PresetNameServed ==
  LET rq == http_request[1]
  IN IF rq.handler = "openai_speech_endpoint"
     THEN MappedVoicePreset(rq.body.voice, rq.body.voice_preset)
     ELSE Some(rq.body.voice_preset)

\* The override the served TTSRequest carried for a parameter
OverrideServed(param) ==
  IF http_request[1].handler = "openai_speech_endpoint"
     /\ param \notin {"temperature", "exaggeration", "cfg_weight"}
  THEN None ELSE http_request[1].body[param]

\* A handler of the modular server answered a request whose preset name is
\* not in the catalog
UnknownPresetServed ==
  /\ srv_pc = "answered"
  /\ http_request[1].handler \in ModularHandlers
  /\ PresetNameServed # None
  /\ PresetNameServed[1] \notin DOMAIN VOICE_PRESETS

\* C22: in a synthesis request of the modular server the parameters are
\* resolved before the model is invoked: generate is only ever called with the
\* parameters resolved for the request's preset, and for a preset name that is
\* not in the catalog generate is not called and no counter changes.
C22_ResolveBeforeGenerate ==
  /\ UnknownPresetServed =>
       /\ \/ http_response[1].synthesis = None
          \/ http_response[1].synthesis[1].generate_params = None
       /\ http_response[1].status >= 400
       /\ metrics = ZeroMetrics
  /\ ( /\ srv_pc = "answered"
       /\ http_request[1].handler \in ModularHandlers
       /\ http_response[1].synthesis # None
       /\ http_response[1].synthesis[1].generate_params # None )
     => /\ PresetNameServed # None
        /\ PresetNameServed[1] \in DOMAIN VOICE_PRESETS
        /\ \A param \in ParamSet :
             http_response[1].synthesis[1].generate_params[1][param] =
               PickOverride(OverrideServed(param),
                            VOICE_PRESETS[PresetNameServed[1]][param])

\* The model is loaded and would have returned a valid buffer for a request of
\* the WAV handler that names an unknown preset
C22_Witness ==
  /\ UnknownPresetServed
  /\ http_request[1].handler = "synthesize_wav"
  /\ model_loaded
  /\ http_request[1].model_out.outcome = "ok"
  /\ http_request[1].model_out.value # None
  /\ ProcessAudioTensor(http_request[1].model_out.value).outcome = "ok"
  /\ http_response[1].status = 500

\* ------------------------------------ claims on the model that is not loaded

\* A synthesis handler of the modular server was entered while the model was
\* not loaded: synthesize_json, synthesize_wav, synthesize_mp3, or
\* _synthesize_internal, which openai_speech_endpoint calls once it has built
\* its TTSRequest
EnteredWithoutModel ==
  /\ srv_pc = "answered"
  /\ ~model_loaded
  /\ LET rq == http_request[1]
     IN \/ rq.handler \in {"synthesize_json", "synthesize_wav", "synthesize_mp3"}
        \/ /\ rq.handler = "openai_speech_endpoint"
           /\ BuildTTSRequest(MappedVoicePreset(rq.body.voice, rq.body.voice_preset),
                              rq.body.exaggeration, rq.body.cfg_weight,
                              rq.body.temperature).outcome = "ok"

\* C23: while the model is not loaded, synthesize_json, synthesize_wav,
\* synthesize_mp3 and _synthesize_internal answer with status 503; the model is
\* not invoked, no audio is encoded and no performance counter changes.
C23_NotLoadedIs503 ==
  EnteredWithoutModel =>
    /\ http_response[1].status = 503
    /\ http_response[1].synthesis = None
    /\ http_response[1].audio_len = None
    /\ metrics = ZeroMetrics

\* _synthesize_internal refuses a request that a loaded model would have served
C23_Witness ==
  /\ EnteredWithoutModel
  /\ http_request[1].handler = "openai_speech_endpoint"
  /\ PresetNameServed[1] \in DOMAIN VOICE_PRESETS
  /\ http_request[1].model_out.outcome = "ok"
  /\ http_request[1].model_out.value # None
  /\ ProcessAudioTensor(http_request[1].model_out.value).outcome = "ok"
  /\ http_request[1].encoder_out = "bytes"
  /\ http_response[1].status = 503

\* ------------------------------------- claims on the OpenAI-compatible handler

\* openai_speech_endpoint answered a request for a catalog preset, the model
\* loaded and returning a buffer that validation accepts, the encoder writing
\* the WAV file
OpenaiServedValidBuffer ==
  /\ srv_pc = "answered"
  /\ http_request[1].handler = "openai_speech_endpoint"
  /\ model_loaded
  /\ LET rq == http_request[1]
     IN /\ BuildTTSRequest(MappedVoicePreset(rq.body.voice, rq.body.voice_preset),
                           rq.body.exaggeration, rq.body.cfg_weight,
                           rq.body.temperature).outcome = "ok"
        /\ PresetNameServed[1] \in DOMAIN VOICE_PRESETS
        /\ rq.model_out.outcome = "ok"
        /\ rq.model_out.value # None
        /\ ProcessAudioTensor(rq.model_out.value).outcome = "ok"
        /\ rq.encoder_out = "bytes"

\* C24: when the model is loaded and returns a valid buffer,
\* openai_speech_endpoint answers with a successful WAV response that carries
\* the duration and the sample rate analyze_audio computed for the buffer.
C24_OpenaiAnswersWav ==
  OpenaiServedValidBuffer =>
    LET analysis ==
          AnalyzeAudio(ProcessAudioTensor(http_request[1].model_out.value).value)
    IN /\ http_response[1].status = 200
       /\ http_response[1].audio_len # None
       /\ http_response[1].synthesis[1].analysis # None
       /\ http_response[1].synthesis[1].analysis[1].duration_seconds
            = analysis.duration_seconds
       /\ http_response[1].synthesis[1].analysis[1].sample_rate = analysis.sample_rate

\* ------------------------------------- claims on the tracker between threads

\* C25: in every state, the ones inside reset_stats included, while another
\* thread reads the tracker, metrics.start_time is the value the tracker was
\* constructed with, and so is every start_time a reader takes for an uptime.
C25_StartTimeNeverMoves ==
  /\ metrics_start_time = constructed_start_time
  /\ Len(reader_values) >= 2 => reader_values[2] = constructed_start_time

\* The counters after the first k of the add_synthesis calls begun
RECURSIVE CountersAfter(_)
CountersAfter(k) ==
  IF k = 0 THEN ZeroMetrics
  ELSE AddSynthesis(CountersAfter(k - 1), adds_begun[k].chars, adds_begun[k].duration,
                    adds_begun[k].processing_time)

\* C26: a dictionary get_stats returns while add_synthesis calls run on another
\* thread (no reset_stats among them) shows the counters as they are after a
\* whole number of those calls: never a count that includes a synthesis whose
\* characters, duration or processing time the totals lack.
C26_WholeCallsOnly ==
  ( /\ reader_stats # None
    /\ reader_stats[1].outcome = "ok"
    /\ resets_begun = 0 )
  => \E k \in 0..Len(adds_begun) :
       LET after == CountersAfter(k)
           stats == reader_stats[1].value
       IN /\ stats.total_requests = after.synthesis_count
          /\ stats.total_characters = after.total_characters
          /\ stats.total_audio_duration = after.total_audio_duration
          /\ stats.total_processing_time = after.total_processing_time

\* ------------------------------------ claims on the counters and the answers

\* synthesize_json, synthesize_wav or synthesize_mp3 answered the request
SynthesisAnswered ==
  /\ srv_pc = "answered"
  /\ http_request[1].handler \in {"synthesize_json", "synthesize_wav", "synthesize_mp3"}

\* C27: a request to synthesize_json, synthesize_wav or synthesize_mp3 that
\* ends in an error response leaves every performance counter as it was, so
\* that synthesis_count is the number of requests answered with success.
C27_ErrorsNotCounted ==
  SynthesisAnswered =>
    /\ http_response[1].status >= 400 => metrics = ZeroMetrics
    /\ metrics.synthesis_count = IF http_response[1].status = 200 THEN 1 ELSE 0

\* --------------------------------------------- claims on loading the model

\* C28: whenever load_model raises, the manager is left not loaded, and every
\* synthesis request served afterwards is answered with 503.
C28_FailedLoadIsNotLoaded ==
  (load_outcome # None /\ load_outcome[1].outcome # "ok") =>
    /\ ~model_loaded
    /\ srv_pc = "answered" => http_response[1].status = 503

\* ------------------------------------------ claims on the number of chunks

\* C29: for a text with a non-whitespace character, any strategy and a
\* positive max_length, split_text_for_streaming returns at least one chunk.
C29_NonBlankGivesChunk ==
  ( /\ seg_pc = "returned"
    /\ NonWhitespace(call_text) # <<>>
    /\ settings # None
    /\ settings[1].chunk_size > 0 )
  => Len(result_chunks) >= 1

\* ------------------------------------- claims on the uploaded voice sample

============================================================================
